---- MODULE Spec2Model ----
(***************************************************************************)
(* Model of the YouTube Q&A backend: the conversation store                *)
(* (services/conversation_memory.py), the caption fetcher and its parsers  *)
(* (services/youtube_transcript.py) and the completion client              *)
(* (services/azure_openai.py).                                             *)
(*                                                                         *)
(* Python values: Optional[x] is the empty tuple (None) or the one-element *)
(* tuple <<x>>; a str that the code only compares or concatenates whole is *)
(* a TLA+ string; a str the code scans (a response body) is a tuple of     *)
(* one-character strings; a list is a sequence.                            *)
(***************************************************************************)
EXTENDS Integers, Sequences, FiniteSets, TLC

VARIABLES
    \* ---- ConversationMemory (conversation_memory.py)
    conversations,   \* self.conversations: session key -> list of exchanges
    timestamps,      \* self.timestamps: session key -> last add time
    now,             \* the wall clock read by datetime.now(), in hours
    lastOp,          \* the store call that has just returned, with what it saw
    result,          \* the value that call returned
    inserted,        \* per key: every exchange added since the record was created
    \* ---- YouTubeTranscriptService.get_transcript (youtube_transcript.py)
    fetch_pc,        \* "idle", "send" (about to issue a GET), "wait" (awaiting it), "done"
    fetch_loc,       \* the locals: languages, loop position, transcript_text, last_error
    fetch_log,       \* the requests issued so far, as the endpoint sees them
    fetch_result,    \* what get_transcript returned
    \* ---- AzureOpenAIService.ask_question (azure_openai.py)
    ask_pc,          \* "idle", "wait" (awaiting client.post), "done"
    ask_request,     \* the arguments and the messages built from them
    ask_result,      \* what ask_question returned
    \* ---- the application (config.py, main.py)
    settings,        \* which of the required settings the environment provides
    azure_openai_service,  \* the global service instance: None or created
    handlers,        \* per request in flight: the handler's position and locals
    \* ---- a caption parser used on its own
    parse_input,     \* the raw caption text, as the pieces it was built from
    parse_fmt,       \* the format it is parsed as (None: not parsed yet)
    parse_output     \* the parser's return value

storeVars == <<conversations, timestamps, now, lastOp, result, inserted>>
fetchVars == <<fetch_pc, fetch_loc, fetch_log, fetch_result>>
askVars == <<ask_pc, ask_request, ask_result>>
appVars == <<settings, azure_openai_service, handlers>>
parseVars == <<parse_input, parse_fmt, parse_output>>

vars == <<conversations, timestamps, now, lastOp, result, inserted,
          fetch_pc, fetch_loc, fetch_log, fetch_result,
          ask_pc, ask_request, ask_result,
          settings, azure_openai_service, handlers,
          parse_input, parse_fmt, parse_output>>

\* ------------------------------------------------------------------ bounds
\* max_history and ttl_hours are constructor arguments (line 11); the model
\* instantiates them small.
MaxHistory == 2
TtlHours == 1
\* The clock runs from 0 to MaxTime: a record written at 0 is expired at MaxTime.
MaxTime == TtlHours + 1
\* At most MaxAdds exchanges are added to the records that exist at one time.
MaxAdds == MaxHistory + 2

\* ------------------------------------------------------------ Python values
None == << >>
Some(x) == <<x>>
\* Truth value of an Optional[str] (None and "" are false) and of an
\* Optional[int] (None and 0 are false).
TruthyStr(opt) == opt # None /\ opt[1] # ""
TruthyInt(opt) == opt # None /\ opt[1] # 0

Min(a, b) == IF a < b THEN a ELSE b

\* seq[-n:] for n > 0: the last n elements, or all of them when n >= len(seq).
LastN(seq, n) ==
    IF n >= Len(seq) THEN seq ELSE SubSeq(seq, Len(seq) - n + 1, Len(seq))

\* f without the keys in S; f with key k set to v.
Without(f, S) == [k \in (DOMAIN f) \ S |-> f[k]]
With(f, k, v) == (k :> v) @@ f

\* ------------------------------------------------------------------ inputs
VideoIds == {"a"}
SessionIds == {None, Some(""), Some("s"), Some("default")}
QAPairs == {<<"q1", "a1">>, <<"q2", "a2">>}
Limits == {Some(0), Some(1), Some(2)}

\* A call's keyword arguments: a record holding the arguments the caller gave.
ArgOr(args, name, default) == IF name \in DOMAIN args THEN args[name] ELSE default

\* --------------------------------------------------- ConversationMemory
max_history == MaxHistory
ttl_hours == TtlHours

\* A caller-visible default other than None.
DefaultSessionId_Named == Some("s")
\* The default of the session_id parameter (lines 47, 81, 104).
DefaultSessionId == None
\* The default of get_history's limit parameter (line 82).
DefaultLimit == None

_get_session_key(video_id, session_id) ==
    IF TruthyStr(session_id)
    THEN video_id \o ":" \o session_id[1]
    ELSE video_id \o ":default"

\* The comparison with >= in place of >.
IsExpired_AtTtl(timestamp, t) == t - timestamp >= ttl_hours
\* now - timestamp > timedelta(hours=self.ttl_hours)
IsExpired(timestamp, t) == t - timestamp > ttl_hours

ExpiredKeys(ts, t) == {key \in DOMAIN ts : IsExpired(ts[key], t)}

\* _cleanup_expired at clock reading t: the two maps afterwards. Deleting a key
\* that self.conversations does not hold raises KeyError.
_cleanup_expired(conv, ts, t) ==
    LET expired_keys == ExpiredKeys(ts, t)
    IN  IF expired_keys \subseteq DOMAIN conv
        THEN [conversations |-> Without(conv, expired_keys),
              timestamps |-> Without(ts, expired_keys),
              raised |-> None]
        ELSE [conversations |-> conv, timestamps |-> ts, raised |-> Some("KeyError")]

\* The trim with the comparison off by one (len > max_history + 1).
TrimHistory_Late(exchanges) ==
    IF Len(exchanges) > max_history + 1 THEN LastN(exchanges, max_history) ELSE exchanges
\* The trim keeping the oldest entries ([:max_history] for [-max_history:]).
TrimHistory_Oldest(exchanges) ==
    IF Len(exchanges) > max_history THEN SubSeq(exchanges, 1, max_history) ELSE exchanges
\* Lines 70-71: keep the last max_history exchanges.
TrimHistory(exchanges) ==
    IF Len(exchanges) > max_history THEN LastN(exchanges, max_history) ELSE exchanges

\* self.conversations[key] of the defaultdict(list): a missing key reads as [].
ListAt(conv, key) == IF key \in DOMAIN conv THEN conv[key] ELSE << >>

\* Lines 98-102 of get_history: the returned list.
HistoryOf(conv, key, limit) ==
    LET history == ListAt(conv, key)
    IN  IF TruthyInt(limit) THEN LastN(history, limit[1]) ELSE history

TotalInserted == LET S == DOMAIN inserted
                     RECURSIVE Sum(_)
                     Sum(T) == IF T = {} THEN 0
                               ELSE LET k == CHOOSE x \in T : TRUE
                                    IN  Len(inserted[k]) + Sum(T \ {k})
                 IN  Sum(S)

\* add_exchange leaving self.timestamps as it was (line 74 missing).
StoreAdd_NoTouch(conv, ts, t, args) ==
    LET session_id == ArgOr(args, "session_id", DefaultSessionId)
        swept == _cleanup_expired(conv, ts, t)
        session_key == _get_session_key(args.video_id, session_id)
        exchange == [question |-> args.question, answer |-> args.answer, timestamp |-> t]
        appended == Append(ListAt(swept.conversations, session_key), exchange)
    IN  IF swept.raised # None
        THEN [conversations |-> conv, timestamps |-> ts, raised |-> swept.raised]
        ELSE [conversations |-> With(swept.conversations, session_key, TrimHistory(appended)),
              timestamps |-> swept.timestamps,
              raised |-> None]
\* The two maps after add_exchange(args) at clock reading t (lines 58-74):
\* sweep, append, trim, touch. The three clock readings of one call (lines 32,
\* 66, 74) fall in the same hour.
StoreAdd(conv, ts, t, args) ==
    LET session_id == ArgOr(args, "session_id", DefaultSessionId)
        swept == _cleanup_expired(conv, ts, t)
        session_key == _get_session_key(args.video_id, session_id)
        exchange == [question |-> args.question, answer |-> args.answer, timestamp |-> t]
        appended == Append(ListAt(swept.conversations, session_key), exchange)
    IN  IF swept.raised # None
        THEN [conversations |-> conv, timestamps |-> ts, raised |-> swept.raised]
        ELSE [conversations |-> With(swept.conversations, session_key, TrimHistory(appended)),
              timestamps |-> With(swept.timestamps, session_key, t),
              raised |-> None]

\* add_exchange(video_id, question, answer[, session_id]).
add_exchange(args) ==
    LET session_id == ArgOr(args, "session_id", DefaultSessionId)
        swept == _cleanup_expired(conversations, timestamps, now)
        session_key == _get_session_key(args.video_id, session_id)
        exchange == [question |-> args.question, answer |-> args.answer, timestamp |-> now]
        after == StoreAdd(conversations, timestamps, now, args)
        ins == Without(inserted, (DOMAIN inserted) \ (DOMAIN swept.conversations))
    IN  /\ conversations' = after.conversations
        /\ timestamps' = after.timestamps
        /\ inserted' = IF after.raised # None THEN inserted
                       ELSE With(ins, session_key, Append(ListAt(ins, session_key), exchange))
        /\ now' = now
        /\ lastOp' = [op |-> "add_exchange", args |-> args, key |-> session_key,
                      expired |-> ExpiredKeys(timestamps, now), raised |-> swept.raised]
        /\ result' = None

\* What get_history(args) returns when called with the store as given at
\* clock reading t (lines 95-102).
GetHistoryReturn(conv, ts, t, args) ==
    LET session_id == ArgOr(args, "session_id", DefaultSessionId)
        limit == ArgOr(args, "limit", DefaultLimit)
        swept == _cleanup_expired(conv, ts, t)
    IN  HistoryOf(swept.conversations, _get_session_key(args.video_id, session_id), limit)

\* get_history refreshing the record's timestamp when it reads it.
get_history_Touching(args) ==
    LET session_id == ArgOr(args, "session_id", DefaultSessionId)
        swept == _cleanup_expired(conversations, timestamps, now)
        session_key == _get_session_key(args.video_id, session_id)
    IN  /\ conversations' = swept.conversations
        /\ timestamps' = IF session_key \in DOMAIN swept.timestamps
                         THEN With(swept.timestamps, session_key, now)
                         ELSE swept.timestamps
        /\ inserted' = Without(inserted, (DOMAIN inserted) \ (DOMAIN swept.conversations))
        /\ now' = now
        /\ lastOp' = [op |-> "get_history", args |-> args, key |-> session_key,
                      expired |-> ExpiredKeys(timestamps, now), raised |-> swept.raised]
        /\ result' = IF swept.raised # None THEN None
                     ELSE GetHistoryReturn(conversations, timestamps, now, args)
\* get_history reading the defaultdict by index (self.conversations[key] for
\* .get), which creates an empty list for an absent key.
get_history_Creating(args) ==
    LET session_id == ArgOr(args, "session_id", DefaultSessionId)
        swept == _cleanup_expired(conversations, timestamps, now)
        session_key == _get_session_key(args.video_id, session_id)
    IN  /\ conversations' = IF swept.raised = None /\ session_key \notin DOMAIN swept.conversations
                            THEN With(swept.conversations, session_key, << >>)
                            ELSE swept.conversations
        /\ timestamps' = swept.timestamps
        /\ inserted' = Without(inserted, (DOMAIN inserted) \ (DOMAIN swept.conversations))
        /\ now' = now
        /\ lastOp' = [op |-> "get_history", args |-> args, key |-> session_key,
                      expired |-> ExpiredKeys(timestamps, now), raised |-> swept.raised]
        /\ result' = IF swept.raised # None THEN None
                     ELSE GetHistoryReturn(conversations, timestamps, now, args)
\* get_history(video_id[, session_id][, limit]).
get_history(args) ==
    LET session_id == ArgOr(args, "session_id", DefaultSessionId)
        swept == _cleanup_expired(conversations, timestamps, now)
        session_key == _get_session_key(args.video_id, session_id)
    IN  /\ conversations' = swept.conversations
        /\ timestamps' = swept.timestamps
        /\ inserted' = Without(inserted, (DOMAIN inserted) \ (DOMAIN swept.conversations))
        /\ now' = now
        /\ lastOp' = [op |-> "get_history", args |-> args, key |-> session_key,
                      expired |-> ExpiredKeys(timestamps, now), raised |-> swept.raised]
        /\ result' = IF swept.raised # None THEN None
                     ELSE GetHistoryReturn(conversations, timestamps, now, args)

\* clear_history forgetting the exchange list.
ClearedConversations_Kept(conv, key) == conv
\* The two deletions of clear_history (lines 107-110).
ClearedConversations(conv, key) == IF key \in DOMAIN conv THEN Without(conv, {key}) ELSE conv
\* clear_history leaving the timestamp behind (lines 109-110 missing).
ClearedTimestamps_Kept(ts, key) == ts
ClearedTimestamps(ts, key) == IF key \in DOMAIN ts THEN Without(ts, {key}) ELSE ts

\* clear_history(video_id[, session_id]).
clear_history(args) ==
    LET session_id == ArgOr(args, "session_id", DefaultSessionId)
        session_key == _get_session_key(args.video_id, session_id)
    IN  /\ conversations' = ClearedConversations(conversations, session_key)
        /\ timestamps' = ClearedTimestamps(timestamps, session_key)
        /\ inserted' = Without(inserted, {session_key})
        /\ now' = now
        /\ lastOp' = [op |-> "clear_history", args |-> args, key |-> session_key,
                      existed |-> session_key \in DOMAIN conversations, raised |-> None]
        /\ result' = None

\* The two maps after get_history's sweep at clock reading t (line 95).
StoreSwept(conv, ts, t) ==
    LET swept == _cleanup_expired(conv, ts, t)
    IN  [conversations |-> swept.conversations, timestamps |-> swept.timestamps,
         raised |-> swept.raised]

\* The two maps after clear_history(args) (lines 106-110).
StoreClear(conv, ts, args) ==
    LET session_key == _get_session_key(args.video_id, ArgOr(args, "session_id", DefaultSessionId))
    IN  [conversations |-> ClearedConversations(conv, session_key),
         timestamps |-> ClearedTimestamps(ts, session_key),
         raised |-> None]

\* format_history_for_prompt (lines 123-131): "" for an empty history, else
\* the header and one Q/A block per exchange, numbered from 1.
RECURSIVE FormatExchanges(_, _)
FormatExchanges(history, i) ==
    IF i > Len(history) THEN ""
    ELSE "\nQ" \o ToString(i) \o ": " \o history[i].question \o "\n"
         \o "A" \o ToString(i) \o ": " \o history[i].answer \o "\n"
         \o FormatExchanges(history, i + 1)
\* The function without its "if not history" test (lines 123-124).
format_history_for_prompt_Unconditional(history) ==
    "\n\nPrevious conversation:\n" \o FormatExchanges(history, 1)
format_history_for_prompt(history) ==
    IF history = << >> THEN ""
    ELSE "\n\nPrevious conversation:\n" \o FormatExchanges(history, 1)

\* Time passes between calls.
Tick ==
    /\ now < MaxTime
    /\ now' = now + 1
    /\ lastOp' = [op |-> "tick"]
    /\ result' = None
    /\ UNCHANGED <<conversations, timestamps, inserted, fetchVars, askVars, appVars, parseVars>>

\* The argument records a caller can pass: session_id and limit may be omitted.
AddArgs(V, S) ==
    {[video_id |-> v, question |-> qa[1], answer |-> qa[2]] : v \in V, qa \in QAPairs}
    \cup {[video_id |-> v, question |-> qa[1], answer |-> qa[2], session_id |-> s] :
            v \in V, qa \in QAPairs, s \in S}
KeyArgs(V, S) ==
    {[video_id |-> v] : v \in V} \cup {[video_id |-> v, session_id |-> s] : v \in V, s \in S}
GetArgs(V, S, L) ==
    KeyArgs(V, S)
    \cup {[video_id |-> v, limit |-> l] : v \in V, l \in L}
    \cup {[video_id |-> v, session_id |-> s, limit |-> l] : v \in V, s \in S, l \in L}

\* The store used on its own: the services stay as they are.
CallAdd(V, S) ==
    /\ TotalInserted < MaxAdds
    /\ \E args \in AddArgs(V, S) : add_exchange(args)
    /\ UNCHANGED <<fetchVars, askVars, appVars, parseVars>>
CallGet(V, S, L) ==
    /\ \E args \in GetArgs(V, S, L) : get_history(args)
    /\ UNCHANGED <<fetchVars, askVars, appVars, parseVars>>
CallClear(V, S) ==
    /\ \E args \in KeyArgs(V, S) : clear_history(args)
    /\ UNCHANGED <<fetchVars, askVars, appVars, parseVars>>

StoreInit ==
    /\ conversations = << >>
    /\ timestamps = << >>
    /\ now = 0
    /\ lastOp = [op |-> "init"]
    /\ result = None
    /\ inserted = << >>

StoreNext ==
    \/ CallAdd(VideoIds, SessionIds)
    \/ CallGet(VideoIds, SessionIds, Limits)
    \/ CallClear(VideoIds, SessionIds)
    \/ Tick

\* ===================================================== caption text parsing
\* A str that is scanned is a tuple of one-character strings.

Whitespace == {" ", "\n", "\t"}
Digits == {"0", "1", "2", "3", "4", "5", "6", "7", "8", "9"}

\* s[i:] and s[i:j] with 1-based i and exclusive j.
From(s, i) == SubSeq(s, i, Len(s))
Slice(s, i, j) == SubSeq(s, i, j - 1)

\* s.startswith(lit, i - 1)
StartsAt(s, i, lit) ==
    /\ i + Len(lit) - 1 <= Len(s)
    /\ \A n \in 1..Len(lit) : s[i + n - 1] = lit[n]

\* The least index >= i where lit starts (s.find(lit, i - 1) + 1), 0 if none.
RECURSIVE Find(_, _, _)
Find(s, i, lit) ==
    IF i + Len(lit) - 1 > Len(s) THEN 0
    ELSE IF StartsAt(s, i, lit) THEN i
    ELSE Find(s, i + 1, lit)

\* str.strip(): leading and trailing whitespace removed.
RECURSIVE LStrip(_)
LStrip(s) == IF s # << >> /\ s[1] \in Whitespace THEN LStrip(Tail(s)) ELSE s
RECURSIVE RStrip(_)
RStrip(s) ==
    IF s # << >> /\ s[Len(s)] \in Whitespace THEN RStrip(SubSeq(s, 1, Len(s) - 1)) ELSE s
Strip(s) == RStrip(LStrip(s))

\* sep.join(parts)
RECURSIVE Join(_, _)
Join(sep, parts) ==
    IF parts = << >> THEN << >>
    ELSE IF Len(parts) = 1 THEN parts[1]
    ELSE parts[1] \o sep \o Join(sep, Tail(parts))

\* str.split(sep) for a one-character sep: the pieces between occurrences.
RECURSIVE SplitOn(_, _, _)
SplitOn(s, sep, cur) ==
    IF s = << >> THEN <<cur>>
    ELSE IF s[1] = sep THEN <<cur>> \o SplitOn(Tail(s), sep, << >>)
    ELSE SplitOn(Tail(s), sep, Append(cur, s[1]))

\* str.split(): the maximal runs of non-whitespace characters.
RECURSIVE SplitWs(_, _)
SplitWs(s, cur) ==
    IF s = << >> THEN (IF cur = << >> THEN << >> ELSE <<cur>>)
    ELSE IF s[1] \in Whitespace
         THEN (IF cur = << >> THEN << >> ELSE <<cur>>) \o SplitWs(Tail(s), << >>)
    ELSE SplitWs(Tail(s), Append(cur, s[1]))

\* str.isdigit()
IsDigit(s) == s # << >> /\ \A n \in 1..Len(s) : s[n] \in Digits

\* The character references html.unescape replaces, among those that occur in
\* the modelled bodies (each ends with its semicolon).
Entities ==
    << <<<<"&", "a", "m", "p", ";">>, <<"&">>>>,
       <<<<"&", "l", "t", ";">>, <<"<">>>>,
       <<<<"&", "g", "t", ";">>, <<">">>>>,
       <<<<"&", "#", "3", "9", ";">>, <<"'">>>>,
       <<<<"&", "#", "3", "2", ";">>, <<" ">>>> >>

\* html.unescape: one left-to-right pass; replaced text is not scanned again.
RECURSIVE Unescape(_)
Unescape(s) ==
    IF s = << >> THEN << >>
    ELSE LET hits == {n \in 1..Len(Entities) : StartsAt(s, 1, Entities[n][1])}
         IN  IF hits = {}
             THEN <<s[1]>> \o Unescape(Tail(s))
             ELSE LET n == CHOOSE m \in hits : TRUE
                  IN  Entities[n][2] \o Unescape(From(s, Len(Entities[n][1]) + 1))

\* re.findall(r'<NAME[^>]*>(.*?)</NAME>', s, re.DOTALL) scanning from index i:
\* the captured bodies of the non-overlapping matches, leftmost first.
\* open is "<NAME" and close is "</NAME>".
RECURSIVE FindAllElements(_, _, _, _)
FindAllElements(s, i, open, close) ==
    LET at == Find(s, i, open)
        gt == IF at = 0 THEN 0 ELSE Find(s, at + Len(open), <<">">>)
        end == IF gt = 0 THEN 0 ELSE Find(s, gt + 1, close)
    IN  IF at = 0 THEN << >>
        ELSE IF end = 0 THEN FindAllElements(s, at + 1, open, close)
        ELSE <<Slice(s, gt + 1, end)>> \o FindAllElements(s, end + Len(close), open, close)

\* [html.unescape(m.strip()) for m in matches if m.strip()]
RECURSIVE CleanFragments(_)
CleanFragments(matches) ==
    IF matches = << >> THEN << >>
    ELSE (IF Strip(matches[1]) # << >> THEN <<Unescape(Strip(matches[1]))>> ELSE << >>)
         \o CleanFragments(Tail(matches))

\* re.sub(r'<[^>]+>', ' ', s): every "<", one or more non-">", ">" becomes a space.
RECURSIVE StripTags(_)
StripTags(s) ==
    IF s = << >> THEN << >>
    ELSE LET gt == IF s[1] = "<" THEN Find(s, 2, <<">">>) ELSE 0
         IN  IF gt > 2
             THEN <<" ">> \o StripTags(From(s, gt + 1))
             ELSE <<s[1]>> \o StripTags(Tail(s))

TextOpen == <<"<", "t", "e", "x", "t">>
TextClose == <<"<", "/", "t", "e", "x", "t", ">">>
POpen == <<"<", "p">>
PClose == <<"<", "/", "p", ">">>

\* _parse_transcript_xml (lines 112-136).
_parse_transcript_xml(xml_content) ==
    LET matches1 == FindAllElements(xml_content, 1, TextOpen, TextClose)
        matches2 == FindAllElements(xml_content, 1, POpen, PClose)
        text_lines == CleanFragments(matches1) \o CleanFragments(matches2)
        text == Unescape(StripTags(xml_content))
    IN  IF text_lines # << >>
        THEN Join(<<" ">>, text_lines)
        ELSE Join(<<" ">>, SplitWs(text, << >>))

\* The lines _parse_vtt keeps (lines 144-152), each stripped.
RECURSIVE VttKept(_)
VttKept(lines) ==
    IF lines = << >> THEN << >>
    ELSE LET line == Strip(lines[1])
             skip == \/ line = << >>
                     \/ StartsAt(line, 1, <<"W", "E", "B", "V", "T", "T">>)
                     \/ Find(line, 1, <<"-", "-", ">">>) # 0
                     \/ IsDigit(line)
                     \/ StartsAt(line, 1, <<"N", "O", "T", "E">>)
                     \/ StartsAt(line, 1, <<"S", "T", "Y", "L", "E">>)
         IN  (IF skip THEN << >> ELSE <<line>>) \o VttKept(Tail(lines))

\* The kept lines joined with nothing between them ("".join for " ".join).
_parse_vtt_Unspaced(vtt_content) == Join(<< >>, VttKept(SplitOn(vtt_content, "\n", << >>)))
\* _parse_vtt (lines 139-154).
_parse_vtt(vtt_content) == Join(<<" ">>, VttKept(SplitOn(vtt_content, "\n", << >>)))

\* _parse_ttml returning its first fragment: a list index that fails when
\* there is none.
_parse_ttml_First(ttml_content) ==
    LET text_lines == CleanFragments(FindAllElements(ttml_content, 1, POpen, PClose))
    IN  IF text_lines = << >> THEN <<"IndexError">> ELSE text_lines[1]
\* _parse_ttml (lines 157-163).
_parse_ttml(ttml_content) ==
    Join(<<" ">>, CleanFragments(FindAllElements(ttml_content, 1, POpen, PClose)))

\* The parser get_transcript picks for a format (lines 52-57).
ParseByFormat(fmt, text) ==
    IF fmt \in {"srv3", "srv1", "srv2"} THEN _parse_transcript_xml(text)
    ELSE IF fmt = "vtt" THEN _parse_vtt(text)
    ELSE _parse_ttml(text)

\* ================================================= exceptions and results
\* An exception: its class, the classes it is an instance of, and str(e).
Exc(class, bases, msg) == [class |-> class, bases |-> bases \cup {class}, msg |-> msg]
ReadTimeout ==
    Exc("ReadTimeout", {"TimeoutException", "TransportError", "RequestError", "Exception"}, "")
ConnectError ==
    Exc("ConnectError", {"TransportError", "RequestError", "Exception"}, "connection failed")
ValueError == Exc("ValueError", {"Exception"}, "Expecting value")
AttributeError == Exc("AttributeError", {"Exception"}, "object has no attribute 'get'")
KeyErrorExc == Exc("KeyError", {"LookupError", "Exception"}, "0")
SSLError == Exc("SSLError", {"OSError", "Exception"}, "cannot load CA bundle")

\* isinstance(e, cls), the test of an except clause.
IsInstance(e, cls) == cls \in e.bases

\* The (success, payload, error) tuple both services return; raised holds an
\* exception that left the function instead.
Returned(success, payload, error) ==
    [raised |-> None, success |-> success, payload |-> payload, error |-> error]
Raised(e) == [raised |-> Some(e), success |-> FALSE, payload |-> None, error |-> None]
NoResult == [raised |-> None, success |-> FALSE, payload |-> None, error |-> None]

\* An error message f"{prefix}{detail}".
Message(prefix, detail) == [prefix |-> prefix, detail |-> detail]

\* ============================================ YouTubeTranscriptService
\* Line 29 and line 21.
formats == <<"srv3", "srv1", "srv2", "vtt", "ttml">>
DefaultLanguages == <<"en", "en-US", "en-GB">>

\* Response bodies the endpoint may send.
BodyEmpty == << >>
BodyBlank == <<" ">>
\* <text>hi</text>
BodyText == <<"<", "t", "e", "x", "t", ">", "h", "i", "<", "/", "t", "e", "x", "t", ">">>
\* <p>yo</p>
BodyP == <<"<", "p", ">", "y", "o", "<", "/", "p", ">">>
\* <text>&#32;</text>
BodySpaceEntity ==
    <<"<", "t", "e", "x", "t", ">", "&", "#", "3", "2", ";", "<", "/", "t", "e", "x", "t", ">">>
\* <a>
BodyTagOnly == <<"<", "a", ">">>

Http(status, text) == [kind |-> "response", status |-> status, text |-> text, exc |-> None]
Fails(e) == [kind |-> "raise", status |-> 0, text |-> << >>, exc |-> Some(e)]

\* What one client.get may do: return a response or raise.
GetOutcomes ==
    {Http(200, b) : b \in {BodyEmpty, BodyBlank, BodyText, BodyP, BodySpaceEntity, BodyTagOnly}}
    \cup {Http(404, BodyEmpty), Http(404, BodyText), Http(429, BodyEmpty)}
    \cup {Fails(ReadTimeout), Fails(ConnectError)}

\* What opening the client (line 27) may do.
OpenOutcomes == {None, Some(SSLError)}

\* The languages argument a caller may give (None: the default of line 20).
LanguageArgs == {None, Some(<<"en", "en-US">>)}

\* Truth value of an Optional[str] held as characters, and of text.strip().
TruthyText(opt) == opt # None /\ opt[1] # << >>
HasNonBlank(opt) == opt # None /\ Strip(opt[1]) # << >>

\* The failure kind a returned error message stands for (lines 99, 105, 107).
\* No message of get_transcript stands for rate limiting.
ErrorKind(error) ==
    IF error = None THEN "None"
    ELSE IF error[1].prefix = "No captions available for this video. " THEN "NoCaptionsAvailable"
    ELSE IF error[1].prefix = "Request timeout while fetching transcript" THEN "Timeout"
    ELSE IF error[1].prefix = "Error fetching transcript: " THEN "TransportError"
    ELSE "Other"

\* The two except clauses around the whole body (lines 104-109).
FetchOuterHandler(e) ==
    IF IsInstance(e, "TimeoutException")
    THEN Returned(FALSE, None, Some(Message("Request timeout while fetching transcript", "")))
    ELSE IF IsInstance(e, "Exception")
    THEN Returned(FALSE, None, Some(Message("Error fetching transcript: ", e.msg)))
    ELSE Raised(e)

\* Lines 98-102 with the empty check dropped.
FetchFinalResult_Unchecked(transcript_text, last_error) ==
    Returned(TRUE, transcript_text, None)
\* Lines 98-102: the return after both loops.
FetchFinalResult(transcript_text, last_error) ==
    IF ~TruthyText(transcript_text) \/ ~HasNonBlank(transcript_text)
    THEN Returned(FALSE, None,
            Some(Message("No captions available for this video. ",
                         IF TruthyStr(last_error) THEN last_error[1]
                         ELSE "Response was empty or could not be parsed.")))
    ELSE Returned(TRUE, transcript_text, None)

\* The try block without its early return (lines 61-63, 91-93).
AttemptBody_NoReturn(phase, fmt, response, transcript_text) ==
    LET usable == /\ response.status = 200
                  /\ response.text # << >>
                  /\ phase = "lang" => Strip(response.text) # << >>
    IN  [transcript_text |-> IF usable THEN Some(ParseByFormat(fmt, response.text))
                             ELSE transcript_text,
         returns |-> FALSE]
\* The body of one attempt's try block (lines 43-65 and 80-93): the new
\* transcript_text and whether the function returns it. In the language loop
\* the body must be non-blank, in the auto-detect loop non-empty.
AttemptBody(phase, fmt, response, transcript_text) ==
    LET usable == /\ response.status = 200
                  /\ response.text # << >>
                  /\ phase = "lang" => Strip(response.text) # << >>
        parsed == Some(ParseByFormat(fmt, response.text))
    IN  IF usable
        THEN [transcript_text |-> parsed,
              returns |-> TruthyText(parsed) /\ HasNonBlank(parsed)]
        ELSE [transcript_text |-> transcript_text, returns |-> FALSE]

\* Where control goes after the language loops (line 72).
AfterLanguages(loc) ==
    IF ~TruthyText(loc.transcript_text)
    THEN [loc EXCEPT !.phase = "auto", !.fmt_i = 1, !.lang_i = 1]
    ELSE [loc EXCEPT !.phase = "end"]

\* The next iteration of the loops of lines 33-34 and 73.
NextPosition(loc) ==
    IF loc.phase = "lang"
    THEN IF loc.lang_i < Len(loc.languages) THEN [loc EXCEPT !.lang_i = @ + 1]
         ELSE IF loc.fmt_i < Len(formats) THEN [loc EXCEPT !.fmt_i = @ + 1, !.lang_i = 1]
         ELSE AfterLanguages(loc)
    ELSE IF loc.fmt_i < Len(formats) THEN [loc EXCEPT !.fmt_i = @ + 1]
         ELSE [loc EXCEPT !.phase = "end"]

\* The request parameters of the attempt at the current position (lines 37-41, 76-79).
RequestAt(loc) ==
    [v |-> loc.video_id,
     lang |-> IF loc.phase = "lang" THEN Some(loc.languages[loc.lang_i]) ELSE None,
     fmt |-> formats[loc.fmt_i]]

EmptyLog == [n |-> 0, request |-> None, outcome |-> None, prior_all_empty |-> TRUE]

\* A response that is not 200 or has an empty body.
IsEmptyOutcome(o) == o.kind = "response" /\ (o.status # 200 \/ o.text = << >>)

\* The function ends: after the loops, or with a return from inside them.
FetchFinish(loc) ==
    /\ fetch_pc' = "done"
    /\ fetch_loc' = loc
    /\ fetch_result' = FetchFinalResult(loc.transcript_text, loc.last_error)

\* get_transcript is called: lines 20-31 and the opening of the client.
FetchCall(video_id, languages, opened) ==
    LET loc == [video_id |-> video_id,
                languages |-> IF languages = None THEN DefaultLanguages ELSE languages[1],
                phase |-> "lang", fmt_i |-> 1, lang_i |-> 1,
                transcript_text |-> None, last_error |-> None]
        entered == IF Len(loc.languages) > 0 THEN loc ELSE AfterLanguages(loc)
    IN  /\ fetch_pc = "idle"
        /\ fetch_log' = EmptyLog
        /\ IF opened # None
           THEN /\ fetch_pc' = "done"
                /\ fetch_loc' = loc
                /\ fetch_result' = FetchOuterHandler(opened[1])
           ELSE IF entered.phase = "end"
           THEN FetchFinish(entered)
           ELSE /\ fetch_pc' = "send"
                /\ fetch_loc' = entered
                /\ fetch_result' = NoResult

\* client.get issued without awaiting the one before it (the requests
\* gathered, not awaited in turn).
FetchSend_Eager ==
    /\ fetch_pc \in {"send", "wait"}
    /\ fetch_log.n < Len(formats)
    /\ fetch_pc' = "wait"
    /\ fetch_log' = [fetch_log EXCEPT !.n = @ + 1, !.request = Some(RequestAt(fetch_loc)),
                                      !.outcome = None]
    /\ UNCHANGED <<fetch_loc, fetch_result>>
\* client.get is issued (lines 43, 80) and the coroutine suspends.
FetchSend ==
    /\ fetch_pc = "send"
    /\ fetch_pc' = "wait"
    /\ fetch_log' = [n |-> fetch_log.n + 1,
                     request |-> Some(RequestAt(fetch_loc)),
                     outcome |-> None,
                     prior_all_empty |-> /\ fetch_log.prior_all_empty
                                         /\ fetch_log.n > 0 => IsEmptyOutcome(fetch_log.outcome[1])]
    /\ UNCHANGED <<fetch_loc, fetch_result>>

\* client.get completes with outcome o; the rest of the iteration runs up to
\* the next client.get or to the return.
FetchRecv(o) ==
    LET fmt == formats[fetch_loc.fmt_i]
        body == AttemptBody(fetch_loc.phase, fmt, o, fetch_loc.transcript_text)
        caught == [fetch_loc EXCEPT !.last_error = Some(o.exc[1].msg)]
        parsed == [fetch_loc EXCEPT !.transcript_text = body.transcript_text]
        after == IF o.kind = "raise" THEN NextPosition(caught) ELSE NextPosition(parsed)
    IN  /\ fetch_pc = "wait"
        /\ fetch_log' = [fetch_log EXCEPT !.outcome = Some(o)]
        /\ IF o.kind = "raise" /\ ~IsInstance(o.exc[1], "Exception")
           THEN /\ fetch_pc' = "done"
                /\ fetch_loc' = fetch_loc
                /\ fetch_result' = FetchOuterHandler(o.exc[1])
           ELSE IF o.kind = "response" /\ body.returns
           THEN /\ fetch_pc' = "done"
                /\ fetch_loc' = parsed
                /\ fetch_result' = Returned(TRUE, body.transcript_text, None)
           ELSE IF after.phase = "end"
           THEN FetchFinish(after)
           ELSE /\ fetch_pc' = "send"
                /\ fetch_loc' = after
                /\ fetch_result' = NoResult

FetchIdle ==
    /\ fetch_pc = "idle"
    /\ fetch_loc = None
    /\ fetch_log = EmptyLog
    /\ fetch_result = NoResult

\* ================================================= AzureOpenAIService
\* A response body as response.json() and the code's lookups see it:
\*   json     "invalid" (json() raises ValueError), "object" or "array"
\*   choices  "missing", "null", "empty" or "list"      (data.get("choices", []))
\*   first    "object" or "string"                      (choices[0])
\*   message  "missing", "null" or "object"             (.get("message", {}))
\*   content  None (key missing), Some("null") or Some(<the string>)
\*   error    "missing", "string" or "object"           (error_data.get("error", {}))
\*   emsg, ecode  None (key missing) or Some(<the string>)
Payload(json, choices, first, message, content, error, emsg, ecode) ==
    [json |-> json, choices |-> choices, first |-> first, message |-> message,
     content |-> content, error |-> error, emsg |-> emsg, ecode |-> ecode]
Completion(content) ==
    Payload("object", "list", "object", "object", content, "missing", None, None)
ErrorBody(error, emsg, ecode) ==
    Payload("object", "missing", "object", "missing", None, error, emsg, ecode)
NotJson == Payload("invalid", "missing", "object", "missing", None, "missing", None, None)

Post(status, payload) == [kind |-> "response", status |-> status, payload |-> payload, exc |-> None]
PostFails(e) == [kind |-> "raise", status |-> 0, payload |-> NotJson, exc |-> Some(e)]

\* What client.post may do.
PostOutcomes ==
    {Post(200, Completion(Some("the answer"))),
     Post(200, Completion(Some(""))),
     Post(200, Completion(Some("null"))),
     Post(200, Completion(None)),
     Post(200, Payload("object", "list", "object", "missing", None, "missing", None, None)),
     Post(200, Payload("object", "list", "object", "null", None, "missing", None, None)),
     Post(200, Payload("object", "list", "string", "missing", None, "missing", None, None)),
     Post(200, Payload("object", "empty", "object", "missing", None, "missing", None, None)),
     Post(200, Payload("object", "null", "object", "missing", None, "missing", None, None)),
     Post(200, Payload("object", "missing", "object", "missing", None, "missing", None, None)),
     Post(200, Payload("array", "missing", "object", "missing", None, "missing", None, None)),
     Post(200, NotJson),
     Post(401, ErrorBody("object", Some("bad key"), Some("401"))),
     Post(429, ErrorBody("object", Some("slow down"), None)),
     Post(500, ErrorBody("object", None, None)),
     Post(500, ErrorBody("string", None, None)),
     Post(500, ErrorBody("missing", None, None)),
     Post(502, NotJson),
     Post(500, Payload("array", "missing", "object", "missing", None, "missing", None, None)),
     PostFails(ReadTimeout), PostFails(ConnectError), PostFails(SSLError)}

\* Lines 115-128: a 200 response. The result, or the exception a lookup raises.
AskOn200(p) ==
    IF p.json = "invalid" THEN Raised(ValueError)
    ELSE IF p.json # "object" THEN Raised(AttributeError)
    ELSE IF p.choices \in {"missing", "null", "empty"}
    THEN Returned(FALSE, None, Some(Message("No choices returned from Azure OpenAI", "")))
    ELSE IF p.first # "object" THEN Raised(AttributeError)
    ELSE IF p.message = "null" THEN Raised(AttributeError)
    ELSE LET answer == IF p.message = "missing" \/ p.content = None THEN Some("")
                       ELSE IF p.content = Some("null") THEN None
                       ELSE p.content
         IN  IF ~TruthyStr(answer)
             THEN Returned(FALSE, None, Some(Message("No response content from Azure OpenAI", "")))
             ELSE Returned(TRUE, answer, None)

\* Lines 131-142: any other status. The bare except of line 138 falls back to
\* the response text.
AskOnError(status, p) ==
    LET parsed == p.json = "object" /\ p.error # "string"
        detail == IF ~parsed THEN "response.text[:200]"
                  ELSE IF p.error = "missing" \/ p.emsg = None THEN "Unknown error"
                  ELSE p.emsg[1]
    IN  Returned(FALSE, None,
                 Some([prefix |-> "Azure OpenAI API error: ", status |-> status,
                       detail |-> detail,
                       code |-> IF parsed /\ p.error = "object" THEN p.ecode ELSE None]))

\* The except clauses of ask_question without the last one.
AskHandlers_NoCatchAll(e) ==
    IF IsInstance(e, "TimeoutException")
    THEN Returned(FALSE, None,
            Some(Message("Request timeout: Azure OpenAI API took too long to respond", "")))
    ELSE IF IsInstance(e, "RequestError")
    THEN Returned(FALSE, None, Some(Message("Network error: ", e.msg)))
    ELSE Raised(e)
\* A bare except that answers with a canned text.
AskHandlers_FallbackAnswer(e) == Returned(TRUE, Some("Sorry, please try again."), None)
\* The except clauses of ask_question (lines 144-155).
AskHandlers(e) ==
    IF IsInstance(e, "TimeoutException")
    THEN Returned(FALSE, None,
            Some(Message("Request timeout: Azure OpenAI API took too long to respond", "")))
    ELSE IF IsInstance(e, "RequestError")
    THEN Returned(FALSE, None, Some(Message("Network error: ", e.msg)))
    ELSE IF IsInstance(e, "Exception")
    THEN Returned(FALSE, None, Some(Message("Unexpected error: ", e.msg)))
    ELSE Raised(e)

\* The try body after client.post has completed with outcome o, then the
\* except clauses.
AskOutcome(o) ==
    LET body == IF o.kind = "raise" THEN Raised(o.exc[1])
                ELSE IF o.status = 200 THEN AskOn200(o.payload)
                ELSE AskOnError(o.status, o.payload)
    IN  IF body.raised # None THEN AskHandlers(body.raised[1]) ELSE body

AskTranscripts == {BodyBlank, <<"h", "i">>}
AskQuestions == {"q1", "q2"}
AskHistories == {None, Some(""), Some("Previous conversation")}

\* ask_question is called: the messages are built (lines 44-99) and
\* client.post is issued (line 105).
AskCall(transcript, question, conversation_history) ==
    /\ ask_pc = "idle"
    /\ ask_pc' = "wait"
    /\ ask_request' =
         [transcript |-> transcript, question |-> question,
          conversation_history |-> conversation_history,
          user_content |-> <<"Video Content:">> \o <<transcript>>
                           \o (IF TruthyStr(conversation_history)
                               THEN <<conversation_history[1]>> ELSE << >>)
                           \o <<"Question: ", question>>,
          system_mentions_history |-> TruthyStr(conversation_history)]
    /\ ask_result' = NoResult

\* client.post completes with outcome o and ask_question returns.
AskRecv(o) ==
    /\ ask_pc = "wait"
    /\ ask_pc' = "done"
    /\ ask_result' = AskOutcome(o)
    /\ UNCHANGED ask_request

AskIdle ==
    /\ ask_pc = "idle"
    /\ ask_request = None
    /\ ask_result = NoResult

\* ======================================================= the application
\* ---- config.py
\* The required settings as os.getenv gives them ("" when unset).
Env(key, endpoint, deployment) ==
    [AZURE_OPENAI_API_KEY |-> key, AZURE_OPENAI_ENDPOINT |-> endpoint,
     AZURE_OPENAI_DEPLOYMENT_NAME |-> deployment]
Environments == {Env("k", "https://e", "d"), Env("", "https://e", "d"), Env("", "", "")}

\* Settings.validate (lines 42-49) and get_missing_settings (lines 51-60).
validate(st) ==
    /\ st.AZURE_OPENAI_API_KEY # ""
    /\ st.AZURE_OPENAI_ENDPOINT # ""
    /\ st.AZURE_OPENAI_DEPLOYMENT_NAME # ""
get_missing_settings(st) ==
    (IF st.AZURE_OPENAI_API_KEY = "" THEN <<"AZURE_OPENAI_API_KEY">> ELSE << >>)
    \o (IF st.AZURE_OPENAI_ENDPOINT = "" THEN <<"AZURE_OPENAI_ENDPOINT">> ELSE << >>)
    \o (IF st.AZURE_OPENAI_DEPLOYMENT_NAME = "" THEN <<"AZURE_OPENAI_DEPLOYMENT_NAME">> ELSE << >>)

\* ', '.join(names)
RECURSIVE JoinNames(_)
JoinNames(names) ==
    IF names = << >> THEN ""
    ELSE IF Len(names) = 1 THEN names[1]
    ELSE names[1] \o ", " \o JoinNames(Tail(names))

\* ---- azure_openai.py: the constructor (lines 11-22, with the url property of
\* config.py lines 33-40) and get_azure_service (lines 160-165). Each gives the
\* global instance afterwards and the exception raised, if any.
AzureOpenAIService(st) ==
    IF ~validate(st)
    THEN [service |-> None,
          raised |-> Some(Exc("ValueError", {"Exception"},
                              "Azure OpenAI settings are not properly configured. Missing: "
                              \o JoinNames(get_missing_settings(st))))]
    ELSE IF st.AZURE_OPENAI_ENDPOINT = "" \/ st.AZURE_OPENAI_DEPLOYMENT_NAME = ""
    THEN [service |-> None,
          raised |-> Some(Exc("ValueError", {"Exception"},
                              "Azure OpenAI endpoint and deployment name must be configured"))]
    ELSE [service |-> Some([api_key |-> st.AZURE_OPENAI_API_KEY,
                            api_url |-> st.AZURE_OPENAI_ENDPOINT \o "/openai/deployments/"
                                        \o st.AZURE_OPENAI_DEPLOYMENT_NAME \o "/chat/completions"]),
          raised |-> None]
get_azure_service(svc, st) ==
    IF svc = None THEN AzureOpenAIService(st) ELSE [service |-> svc, raised |-> None]

\* ---- schemas.py: a request body as the model built from the JSON holds it.
\* Only declared fields exist on the model; undeclared JSON keys are dropped;
\* question has min_length=1.
QARequestFields == {"video_id", "transcript", "question"}
QARequest(json) ==
    [valid |-> Len(json.question) >= 1,
     request |-> [f \in QARequestFields |-> json[f]]]
AutoQARequest(json) ==
    [valid |-> Len(json.question) >= 1,
     request |-> [video_id |-> json.video_id, question |-> json.question,
                  session_id |-> ArgOr(json, "session_id", None),
                  clear_history |-> ArgOr(json, "clear_history", FALSE)]]

\* ---- main.py
\* HTTPException(status_code, detail), and the response the framework makes of
\* one; the 422 it answers when the body does not validate.
HTTPException(status_code, detail) ==
    [class |-> "HTTPException", bases |-> {"HTTPException", "Exception"},
     msg |-> "", status_code |-> status_code, detail |-> detail]
ErrorResponse(status_code, detail) ==
    [status |-> status_code, detail |-> Some(detail), body |-> None]
ValidationErrorResponse ==
    ErrorResponse(422, Message("String should have at least 1 character", ""))
\* QAResponse(...) returned with status 200 (lines 256-264, 372-380).
QAResponse(answer, video_id, transcript_fetched, session_id, conversation_length) ==
    [status |-> 200, detail |-> None,
     body |-> Some([success |-> TRUE, answer |-> answer, error |-> None,
                    video_id |-> video_id, transcript_fetched |-> transcript_fetched,
                    session_id |-> session_id, conversation_length |-> conversation_length])]

\* asyncio.CancelledError, raised at the await of a cancelled request.
CancelledError == Exc("CancelledError", {"BaseException"}, "")

\* "not s or not s.strip()" for the request strings of the model.
IsBlankStr(str) == str \in {"", " "}
IsBlankText(text) == text = << >> \/ Strip(text) = << >>

\* How an exception raised in a handler's try block leaves the handler (lines
\* 272-279, 388-395): the response, or the exception when no clause catches it.
HandlerExcept(e) ==
    IF IsInstance(e, "HTTPException")
    THEN [response |-> Some(ErrorResponse(e.status_code, e.detail)), raised |-> None]
    ELSE IF IsInstance(e, "Exception")
    THEN [response |-> Some(ErrorResponse(500, Message("Internal server error: ", e.msg))),
          raised |-> None]
    ELSE [response |-> None, raised |-> Some(e)]

\* request.<name> raising AttributeError for a field the model does not have.
NoAttribute(cls, name) ==
    Exc("AttributeError", {"Exception"},
        "'" \o cls \o "' object has no attribute '" \o name \o "'")

\* A request in flight: the handler's position (pc: "fetch" and "ask" are the
\* two awaits, "done" has a response, "raised" was left by an exception) and
\* locals, with a record of what it did: fetched and asked (what get_transcript
\* and ask_question returned to it), cancelled (it was cancelled at an await), appended (the exchanges it
\* added, with their keys) and calls (the store calls of its latest step).
NewRequest(endpoint, cls, request) ==
    [endpoint |-> endpoint, cls |-> cls, request |-> request, pc |-> "start",
     transcript |-> None, formatted_history |-> None,
     response |-> None, raised |-> None,
     fetched |-> None, asked |-> None, cancelled |-> FALSE,
     appended |-> << >>, calls |-> << >>]

\* The handler ends: with the response of outcome, or by raising.
Ended(slot, outcome) ==
    [slot EXCEPT !.pc = IF outcome.raised # None THEN "raised" ELSE "done",
                 !.transcript = None, !.formatted_history = None,
                 !.response = outcome.response,
                 !.raised = outcome.raised]

\* The checks at the head of ask_question_auto (lines 178-196) and of
\* ask_question (lines 307-325): the HTTPException raised, or None.
ValidateAuto(request, st) ==
    IF ~validate(st)
    THEN Some(HTTPException(503, Message("Azure OpenAI is not configured. Missing: ",
                                         JoinNames(get_missing_settings(st)))))
    ELSE IF IsBlankStr(request.video_id)
    THEN Some(HTTPException(400, Message("Video ID cannot be empty", "")))
    ELSE IF IsBlankStr(request.question)
    THEN Some(HTTPException(400, Message("Question cannot be empty", "")))
    ELSE None
ValidateQA(request, st) ==
    IF ~validate(st)
    THEN Some(HTTPException(503, Message("Azure OpenAI is not configured. Missing: ",
                                         JoinNames(get_missing_settings(st)))))
    ELSE IF IsBlankText(request.transcript)
    THEN Some(HTTPException(400, Message("Transcript cannot be empty", "")))
    ELSE IF IsBlankStr(request.question)
    THEN Some(HTTPException(400, Message("Question cannot be empty", "")))
    ELSE None

\* What a handler step leaves behind: the two maps, the global service
\* instance and the request.
Step(conv, ts, svc, slot) ==
    [conversations |-> conv, timestamps |-> ts, service |-> svc, slot |-> slot]

\* The handler reading the history before it clears the record (lines 221 and
\* 216-218 exchanged).
Converse_ReadBeforeClear(slot, transcript, conv, ts, t, svc, st) ==
    LET request == slot.request
        missing == {"clear_history", "session_id"} \ DOMAIN request
        clears == request.clear_history = TRUE
        swept == StoreSwept(conv, ts, t)
        history == HistoryOf(swept.conversations,
                             _get_session_key(request.video_id, request.session_id), None)
        cleared == IF clears
                   THEN StoreClear(swept.conversations, swept.timestamps,
                                   [video_id |-> request.video_id,
                                    session_id |-> request.session_id])
                   ELSE [conversations |-> swept.conversations,
                         timestamps |-> swept.timestamps, raised |-> None]
        formatted_history == IF history # << >> THEN Some(format_history_for_prompt(history))
                             ELSE None
        got == get_azure_service(svc, st)
        calls == <<"get_history">> \o (IF clears THEN <<"clear_history">> ELSE << >>)
    IN  IF missing # {}
        THEN Step(conv, ts, svc,
                  Ended(slot, HandlerExcept(NoAttribute(slot.cls,
                            IF "clear_history" \in missing THEN "clear_history"
                            ELSE "session_id"))))
        ELSE IF swept.raised # None \/ got.raised # None
        THEN Step(conv, ts, svc, Ended([slot EXCEPT !.calls = calls], HandlerExcept(KeyErrorExc)))
        ELSE Step(cleared.conversations, cleared.timestamps, got.service,
                  [slot EXCEPT !.pc = "ask", !.transcript = Some(transcript),
                               !.formatted_history = formatted_history, !.calls = calls])
\* Lines 215-241 (331-357 in ask_question): clear on request, read the
\* history, format it, get the service, and suspend in ask_question.
Converse(slot, transcript, conv, ts, t, svc, st) ==
    LET request == slot.request
        missing == {"clear_history", "session_id"} \ DOMAIN request
        key_args == [video_id |-> request.video_id, session_id |-> request.session_id]
        clears == request.clear_history = TRUE
        cleared == IF clears THEN StoreClear(conv, ts, key_args)
                   ELSE [conversations |-> conv, timestamps |-> ts, raised |-> None]
        swept == StoreSwept(cleared.conversations, cleared.timestamps, t)
        history == HistoryOf(swept.conversations,
                             _get_session_key(request.video_id, request.session_id), None)
        formatted_history == IF history # << >> THEN Some(format_history_for_prompt(history))
                             ELSE None
        got == get_azure_service(svc, st)
        calls == (IF clears THEN <<"clear_history">> ELSE << >>) \o <<"get_history">>
    IN  IF missing # {}
        THEN Step(conv, ts, svc,
                  Ended(slot, HandlerExcept(NoAttribute(slot.cls,
                            IF "clear_history" \in missing THEN "clear_history"
                            ELSE "session_id"))))
        ELSE IF swept.raised # None
        THEN Step(cleared.conversations, cleared.timestamps, svc,
                  Ended([slot EXCEPT !.calls = calls], HandlerExcept(KeyErrorExc)))
        ELSE IF got.raised # None
        THEN Step(swept.conversations, swept.timestamps, got.service,
                  Ended([slot EXCEPT !.calls = calls],
                        HandlerExcept(HTTPException(503,
                            Message("Azure OpenAI service unavailable: ", got.raised[1].msg)))))
        ELSE Step(swept.conversations, swept.timestamps, got.service,
                  [slot EXCEPT !.pc = "ask", !.transcript = Some(transcript),
                               !.formatted_history = formatted_history, !.calls = calls])

\* ask_question_auto from its entry to its first await (lines 176-203).
EnterAuto(slot, st) ==
    LET refused == ValidateAuto(slot.request, st)
    IN  IF refused # None THEN Ended(slot, HandlerExcept(refused[1]))
        ELSE [slot EXCEPT !.pc = "fetch"]

\* ask_question from its entry to its first await (lines 305-357).
EnterQA(slot, conv, ts, t, svc, st) ==
    LET refused == ValidateQA(slot.request, st)
    IN  IF refused # None THEN Step(conv, ts, svc, Ended(slot, HandlerExcept(refused[1])))
        ELSE Converse(slot, slot.request.transcript, conv, ts, t, svc, st)

\* The handler going on to the conversation step whatever get_transcript
\* returned (the test of line 205 missing).
AfterTranscript_IgnoreFailure(slot, res, conv, ts, t, svc, st) ==
    IF res.raised # None
    THEN Step(conv, ts, svc, Ended([slot EXCEPT !.calls = << >>], HandlerExcept(res.raised[1])))
    ELSE Converse([slot EXCEPT !.fetched = Some(res)],
                  IF res.payload # None THEN res.payload[1] ELSE << >>, conv, ts, t, svc, st)
\* The handler clearing the session's history as soon as get_transcript
\* returns, before the test of line 205.
AfterTranscript_ClearFirst(slot, res, conv, ts, t, svc, st) ==
    LET request == slot.request
        clears == request.clear_history = TRUE
        cleared == IF clears
                   THEN StoreClear(conv, ts, [video_id |-> request.video_id,
                                              session_id |-> request.session_id])
                   ELSE [conversations |-> conv, timestamps |-> ts, raised |-> None]
    IN  IF res.raised # None
        THEN Step(cleared.conversations, cleared.timestamps, svc,
                  Ended([slot EXCEPT !.calls = << >>], HandlerExcept(res.raised[1])))
        ELSE IF ~res.success
        THEN Step(cleared.conversations, cleared.timestamps, svc,
                  Ended([slot EXCEPT !.fetched = Some(res), !.calls = << >>],
                        HandlerExcept(HTTPException(404, [prefix |-> "Could not fetch transcript: ",
                                                          detail |-> res.error[1]]))))
        ELSE Converse([slot EXCEPT !.fetched = Some(res)], res.payload[1], conv, ts, t, svc, st)
\* ask_question_auto resumed with what get_transcript returned or raised
\* (lines 201-241).
AfterTranscript(slot, res, conv, ts, t, svc, st) ==
    IF res.raised # None
    THEN Step(conv, ts, svc, Ended([slot EXCEPT !.calls = << >>], HandlerExcept(res.raised[1])))
    ELSE IF ~res.success
    THEN Step(conv, ts, svc,
              Ended([slot EXCEPT !.fetched = Some(res), !.calls = << >>],
                    HandlerExcept(HTTPException(404, [prefix |-> "Could not fetch transcript: ",
                                                      detail |-> res.error[1]]))))
    ELSE Converse([slot EXCEPT !.fetched = Some(res)], res.payload[1], conv, ts, t, svc, st)

\* The success branch reporting the length of the history read before the
\* completion call (len(history) for len(updated_history)).
StoreAndAnswer_LengthBefore(slot, answer, conv, ts, t, svc) ==
    LET request == slot.request
        args == [video_id |-> request.video_id, question |-> request.question,
                 answer |-> answer, session_id |-> request.session_id]
        session_key == _get_session_key(request.video_id, request.session_id)
        added == StoreAdd(conv, ts, t, args)
        exchange == [question |-> request.question, answer |-> answer, timestamp |-> t]
    IN  Step(added.conversations, added.timestamps, svc,
             Ended([slot EXCEPT !.calls = <<"add_exchange">>,
                                !.appended = Append(@, [key |-> session_key,
                                                        exchange |-> exchange])],
                   [response |-> Some(QAResponse(answer, request.video_id,
                                                 slot.endpoint = "auto", request.session_id,
                                                 Len(HistoryOf(conv, session_key, None)))),
                    raised |-> None]))
\* The success branch of lines 243-264 (359-380): add the exchange, read the
\* record again for its length, and answer.
StoreAndAnswer(slot, answer, conv, ts, t, svc) ==
    LET request == slot.request
        args == [video_id |-> request.video_id, question |-> request.question,
                 answer |-> answer, session_id |-> request.session_id]
        session_key == _get_session_key(request.video_id, request.session_id)
        added == StoreAdd(conv, ts, t, args)
        swept == StoreSwept(added.conversations, added.timestamps, t)
        updated_history == HistoryOf(swept.conversations, session_key, None)
        exchange == [question |-> request.question, answer |-> answer, timestamp |-> t]
    IN  IF added.raised # None
        THEN Step(conv, ts, svc,
                  Ended([slot EXCEPT !.calls = <<"add_exchange">>], HandlerExcept(KeyErrorExc)))
        ELSE Step(swept.conversations, swept.timestamps, svc,
                  Ended([slot EXCEPT !.calls = <<"add_exchange", "get_history">>,
                                     !.appended = Append(@, [key |-> session_key,
                                                             exchange |-> exchange])],
                        [response |-> Some(QAResponse(answer, request.video_id,
                                                      slot.endpoint = "auto", request.session_id,
                                                      Len(updated_history))),
                         raised |-> None]))

\* The handler storing the exchange whatever ask_question returned.
AfterCompletion_StoreAlways(slot, res, conv, ts, t, svc) ==
    StoreAndAnswer([slot EXCEPT !.asked = Some(res)],
                   IF res.payload # None THEN res.payload[1] ELSE "", conv, ts, t, svc)
\* A handler resumed with what ask_question returned or raised (lines 237-270,
\* 353-386).
AfterCompletion(slot, res, conv, ts, t, svc) ==
    IF res.raised # None
    THEN Step(conv, ts, svc, Ended([slot EXCEPT !.calls = << >>], HandlerExcept(res.raised[1])))
    ELSE IF res.success
    THEN StoreAndAnswer([slot EXCEPT !.asked = Some(res)], res.payload[1], conv, ts, t, svc)
    ELSE Step(conv, ts, svc,
              Ended([slot EXCEPT !.asked = Some(res), !.calls = << >>],
                    HandlerExcept(HTTPException(500, res.error[1]))))

\* ---- what the application's surroundings may do
MaxRequests == 2
Requests == 1..MaxRequests

\* JSON bodies posted to /api/qa/auto and to /api/qa.
AutoBodies ==
    {[video_id |-> "a", question |-> "q1"],
     [video_id |-> "a", question |-> "q1", session_id |-> Some("s")],
     [video_id |-> "a", question |-> "q1", clear_history |-> TRUE],
     [video_id |-> "a", question |-> "q1", session_id |-> Some("s"), clear_history |-> TRUE],
     [video_id |-> " ", question |-> "q1"],
     [video_id |-> "a", question |-> " "],
     [video_id |-> "a", question |-> ""]}
QABodies ==
    {[video_id |-> "a", transcript |-> <<"h", "i">>, question |-> "q1"],
     [video_id |-> "a", transcript |-> <<"h", "i">>, question |-> "q1",
      session_id |-> Some("s"), clear_history |-> TRUE],
     [video_id |-> " ", transcript |-> <<"h", "i">>, question |-> "q1"],
     [video_id |-> "a", transcript |-> BodyBlank, question |-> "q1"],
     [video_id |-> "a", transcript |-> <<"h", "i">>, question |-> " "],
     [video_id |-> "a", transcript |-> <<"h", "i">>, question |-> ""]}

\* What the awaited get_transcript and ask_question may give a handler: a
\* return value of theirs, or the CancelledError of a cancelled request.
TranscriptOutcomes ==
    {[cancelled |-> FALSE, res |-> Returned(TRUE, Some(ParseByFormat("srv3", BodyText)), None)],
     [cancelled |-> FALSE, res |-> FetchFinalResult(None, None)],
     [cancelled |-> FALSE, res |-> FetchOuterHandler(ReadTimeout)],
     [cancelled |-> TRUE, res |-> FetchOuterHandler(CancelledError)]}
CompletionOutcomes ==
    {[cancelled |-> FALSE, res |-> AskOutcome(o)] :
        o \in {Post(200, Completion(Some("the answer"))), Post(200, Completion(Some(""))),
               Post(200, NotJson), Post(429, ErrorBody("object", Some("slow down"), None)),
               PostFails(ReadTimeout)}}
    \cup {[cancelled |-> TRUE, res |-> AskOutcome(PostFails(CancelledError))]}

\* ---- the application's steps
\* A handler step's effect on the state.
Commit(r, step) ==
    /\ conversations' = step.conversations
    /\ timestamps' = step.timestamps
    /\ azure_openai_service' = step.service
    /\ handlers' = With(handlers, r, step.slot)
    /\ UNCHANGED <<settings, now, lastOp, result, inserted, fetchVars, askVars, parseVars>>

\* The slot a new request takes: the least one not in use.
FreeSlot == {r \in Requests \ DOMAIN handlers : \A q \in Requests \ DOMAIN handlers : r <= q}

\* The process starts: config.py reads the environment and startup_event
\* (main.py lines 44-58) creates the service when the settings validate.
Startup ==
    /\ settings = None
    /\ \E env \in Environments :
        /\ settings' = Some(env)
        /\ azure_openai_service' = IF validate(env) THEN get_azure_service(None, env).service
                                   ELSE None
    /\ UNCHANGED <<handlers, storeVars, fetchVars, askVars, parseVars>>

\* POST /api/qa/auto arrives and runs to its first await or to its response.
PostAuto ==
    /\ settings # None
    /\ \E r \in FreeSlot, json \in AutoBodies :
        LET parsed == AutoQARequest(json)
            slot == NewRequest("auto", "AutoQARequest", parsed.request)
        IN  Commit(r, Step(conversations, timestamps, azure_openai_service,
                           IF ~parsed.valid
                           THEN Ended(slot, [response |-> Some(ValidationErrorResponse),
                                             raised |-> None])
                           ELSE EnterAuto(slot, settings[1])))

\* POST /api/qa arrives and runs to its first await or to its response.
PostQA ==
    /\ settings # None
    /\ \E r \in FreeSlot, json \in QABodies :
        LET parsed == QARequest(json)
            slot == NewRequest("qa", "QARequest", parsed.request)
        IN  Commit(r, IF ~parsed.valid
                      THEN Step(conversations, timestamps, azure_openai_service,
                                Ended(slot, [response |-> Some(ValidationErrorResponse),
                                             raised |-> None]))
                      ELSE EnterQA(slot, conversations, timestamps, now,
                                   azure_openai_service, settings[1]))

\* get_transcript returns to (or the cancellation reaches) a suspended handler.
TranscriptReturns ==
    \E r \in DOMAIN handlers, o \in TranscriptOutcomes :
        /\ handlers[r].pc = "fetch"
        /\ Commit(r, AfterTranscript([handlers[r] EXCEPT !.cancelled = o.cancelled], o.res,
                                     conversations, timestamps, now,
                                     azure_openai_service, settings[1]))

\* ask_question returns to (or the cancellation reaches) a suspended handler.
CompletionReturns ==
    \E r \in DOMAIN handlers, o \in CompletionOutcomes :
        /\ handlers[r].pc = "ask"
        /\ Commit(r, AfterCompletion([handlers[r] EXCEPT !.cancelled = o.cancelled], o.res,
                                     conversations, timestamps, now, azure_openai_service))

\* The response has been sent (or the exception reported): the request is over.
Respond ==
    \E r \in DOMAIN handlers :
        /\ handlers[r].pc \in {"done", "raised"}
        /\ handlers' = Without(handlers, {r})
        /\ UNCHANGED <<settings, azure_openai_service, storeVars, fetchVars, askVars, parseVars>>

\* GET and DELETE /api/conversation/history (lines 97-147): one store call each.
GetConversationHistory ==
    /\ settings # None
    /\ LET swept == StoreSwept(conversations, timestamps, now)
       IN  /\ swept.raised = None
           /\ conversations' = swept.conversations
           /\ timestamps' = swept.timestamps
    /\ UNCHANGED <<now, lastOp, result, inserted, fetchVars, askVars, appVars, parseVars>>
ClearConversationHistory ==
    /\ settings # None
    /\ \E v \in VideoIds, sid \in {None, Some("s")} :
         LET cleared == StoreClear(conversations, timestamps, [video_id |-> v, session_id |-> sid])
         IN  /\ conversations' = cleared.conversations
             /\ timestamps' = cleared.timestamps
    /\ UNCHANGED <<now, lastOp, result, inserted, fetchVars, askVars, appVars, parseVars>>

AppNext ==
    \/ Startup
    \/ PostAuto
    \/ PostQA
    \/ TranscriptReturns
    \/ CompletionReturns
    \/ Respond
    \/ GetConversationHistory
    \/ ClearConversationHistory
    \/ Tick

\* The two services as the handlers use them: the transcript is fetched, then
\* the question is asked about a transcript.
CallFetch ==
    /\ \E v \in VideoIds, l \in LanguageArgs, opened \in OpenOutcomes : FetchCall(v, l, opened)
    /\ UNCHANGED <<askVars, storeVars, appVars, parseVars>>
SendGet == FetchSend /\ UNCHANGED <<askVars, storeVars, appVars, parseVars>>
RecvGet == (\E o \in GetOutcomes : FetchRecv(o)) /\ UNCHANGED <<askVars, storeVars, appVars, parseVars>>
CallAsk ==
    /\ fetch_pc = "done"
    /\ \E t \in AskTranscripts \cup (IF fetch_result.success THEN {fetch_result.payload[1]} ELSE {}),
          q \in AskQuestions, h \in AskHistories : AskCall(t, q, h)
    /\ UNCHANGED <<fetchVars, storeVars, appVars, parseVars>>
RecvPost == (\E o \in PostOutcomes : AskRecv(o)) /\ UNCHANGED <<fetchVars, storeVars, appVars, parseVars>>

\* One request to POST /api/qa/auto with its two awaits carried out by the
\* services: the handler calls get_transcript with the request's video_id and
\* the default languages (main.py lines 201-203) and is resumed with what it
\* returned; it calls ask_question with the transcript, the question and the
\* formatted history (lines 237-241) and is resumed with what that returned.
HandlerFetches ==
    /\ \E r \in DOMAIN handlers, opened \in OpenOutcomes :
          /\ handlers[r].pc = "fetch"
          /\ FetchCall(handlers[r].request.video_id, None, opened)
    /\ UNCHANGED <<askVars, storeVars, appVars, parseVars>>
FetchReturns ==
    \E r \in DOMAIN handlers :
        /\ handlers[r].pc = "fetch"
        /\ fetch_pc = "done"
        /\ Commit(r, AfterTranscript(handlers[r], fetch_result, conversations, timestamps, now,
                                     azure_openai_service, settings[1]))
HandlerAsks ==
    /\ \E r \in DOMAIN handlers :
          /\ handlers[r].pc = "ask"
          /\ AskCall(handlers[r].transcript[1], handlers[r].request.question,
                     handlers[r].formatted_history)
    /\ UNCHANGED <<fetchVars, storeVars, appVars, parseVars>>
AskReturns ==
    \E r \in DOMAIN handlers :
        /\ handlers[r].pc = "ask"
        /\ ask_pc = "done"
        /\ Commit(r, AfterCompletion(handlers[r], ask_result, conversations, timestamps, now,
                                     azure_openai_service))

\* The application before its start-up and with no request in flight.
AppIdle ==
    /\ settings = None
    /\ azure_openai_service = None
    /\ handlers = << >>

\* No caption text received yet.
ParseIdle ==
    /\ parse_input = << >>
    /\ parse_fmt = None
    /\ parse_output = None

Init == StoreInit /\ FetchIdle /\ AskIdle /\ AppIdle /\ ParseIdle

ServicesNext == CallFetch \/ SendGet \/ RecvGet \/ CallAsk \/ RecvPost

SpecServices == Init /\ [][ServicesNext]_vars

SpecStore == Init /\ [][StoreNext]_vars

SpecApp == Init /\ [][AppNext]_vars

\* One request from its arrival to its response. The outbound calls return or
\* time out (client.get has timeout=30.0, client.post timeout=120.0), and the
\* event loop resumes a coroutine whose awaited call has completed.
RequestNext ==
    \/ Startup
    \/ (handlers = << >> /\ PostAuto)
    \/ HandlerFetches
    \/ SendGet
    \/ RecvGet
    \/ FetchReturns
    \/ HandlerAsks
    \/ RecvPost
    \/ AskReturns

SpecRequest ==
    /\ Init /\ [][RequestNext]_vars
    /\ WF_vars(HandlerFetches) /\ WF_vars(SendGet) /\ WF_vars(RecvGet) /\ WF_vars(FetchReturns)
    /\ WF_vars(HandlerAsks) /\ WF_vars(RecvPost) /\ WF_vars(AskReturns)

\* ---- a parser used on its own: a caption text arrives piece by piece and is
\* parsed as one of the formats.
MaxPieces == 3
Pieces ==
    {BodyText, BodyP, BodyBlank, <<"\n">>, <<"d">>,
     \* <text> </text>, <i>c</i>, &amp;lt;, 0 --> 1 and an unclosed <text
     <<"<", "t", "e", "x", "t", ">", " ", "<", "/", "t", "e", "x", "t", ">">>,
     <<"<", "i", ">", "c", "<", "/", "i", ">">>,
     <<"&", "a", "m", "p", ";", "l", "t", ";">>,
     <<"0", " ", "-", "-", ">", " ", "1">>,
     <<"<", "t", "e", "x", "t">>,
     \* the words and the cue number a vtt text has
     <<"W", "E", "B", "V", "T", "T">>, <<"N", "O", "T", "E">>,
     <<"S", "T", "Y", "L", "E">>, <<"7">>}

\* The text the pieces make.
RECURSIVE Concat(_)
Concat(pieces) == IF pieces = << >> THEN << >> ELSE pieces[1] \o Concat(Tail(pieces))
RawText == Concat(parse_input)

ReceivePiece ==
    /\ parse_fmt = None
    /\ Len(parse_input) < MaxPieces
    /\ \E piece \in Pieces : parse_input' = Append(parse_input, piece)
    /\ UNCHANGED <<parse_fmt, parse_output, storeVars, fetchVars, askVars, appVars>>

ParseAs ==
    /\ parse_fmt = None
    /\ \E n \in 1..Len(formats) :
         /\ parse_fmt' = Some(formats[n])
         /\ parse_output' = Some(ParseByFormat(formats[n], RawText))
    /\ UNCHANGED <<parse_input, storeVars, fetchVars, askVars, appVars>>

ParserNext == ReceivePiece \/ ParseAs

SpecParser == Init /\ [][ParserNext]_vars

\* ===================================================== claims on the store

IsStoreCall == lastOp.op \in {"add_exchange", "get_history", "clear_history"}
SessionOmitted == "session_id" \notin DOMAIN lastOp.args
LimitOmitted == "limit" \notin DOMAIN lastOp.args

\* C1: every stored record holds at most max_history exchanges, in every
\* reachable state, so in particular right after each add_exchange returns.
C1_HistoryBounded ==
    \A key \in DOMAIN conversations : Len(conversations[key]) <= max_history

\* An add_exchange has just returned on a key that had received more than
\* max_history exchanges, so the trim has dropped one.
C1_Witness ==
    /\ lastOp.op = "add_exchange"
    /\ Len(inserted[lastOp.key]) > max_history
    /\ Len(conversations[lastOp.key]) = max_history

\* C2: after max_history + k adds (k >= 1) to one key with no clear and no
\* expiry in between, get_history without limit returns exactly max_history
\* exchanges, the i-th returned being the (k+i)-th inserted.
C2_KeepsMostRecent ==
    (lastOp.op = "get_history" /\ LimitOmitted /\ lastOp.key \in DOMAIN inserted
        /\ Len(inserted[lastOp.key]) > max_history)
    => LET all == inserted[lastOp.key]
           k == Len(all) - max_history
       IN  /\ Len(result) = max_history
           /\ \A i \in 1..max_history : result[i] = all[k + i]

\* get_history has just returned for a key that received max_history + 2 adds.
C2_Witness ==
    /\ lastOp.op = "get_history" /\ LimitOmitted
    /\ lastOp.key \in DOMAIN inserted
    /\ Len(inserted[lastOp.key]) = max_history + 2
    /\ Len(result) = max_history

\* C3: an add_exchange or get_history step removes every record whose
\* last_touched is more than ttl_hours before the clock, before it reads or
\* writes: get_history of an expired key returns [], add_exchange on an expired
\* key leaves exactly the new exchange, no expired record remains afterwards,
\* and a record not older than ttl_hours is kept as it was.
C3_SweepStep ==
    LET old == {k \in DOMAIN timestamps : now - timestamps[k] > ttl_hours}
        key == lastOp'.key
    IN  lastOp'.op \in {"add_exchange", "get_history"} =>
          /\ \A k \in old \ {key} : k \notin DOMAIN conversations' /\ k \notin DOMAIN timestamps'
          /\ (key \in old /\ lastOp'.op = "get_history") =>
                /\ result' = << >>
                /\ key \notin DOMAIN conversations' /\ key \notin DOMAIN timestamps'
          /\ (key \in old /\ lastOp'.op = "add_exchange") =>
                /\ Len(conversations'[key]) = 1
                /\ conversations'[key][1].question = lastOp'.args.question
                /\ conversations'[key][1].answer = lastOp'.args.answer
          /\ \A k \in DOMAIN timestamps' : now' - timestamps'[k] <= ttl_hours
          /\ DOMAIN conversations' \subseteq DOMAIN timestamps'
          /\ \A k \in (DOMAIN timestamps) \ old :
                /\ k \in DOMAIN timestamps' /\ k \in DOMAIN conversations'
                /\ k # key => /\ conversations'[k] = conversations[k]
                              /\ timestamps'[k] = timestamps[k]
C3_ExpirySweep == [][C3_SweepStep]_vars

\* add_exchange has just run on a key whose record had expired, while another
\* record, not expired, is still stored.
C3_Witness ==
    /\ lastOp.op = "add_exchange"
    /\ lastOp.key \in lastOp.expired
    /\ Len(conversations[lastOp.key]) = 1
    /\ \E k \in DOMAIN conversations : k # lastOp.key

\* C4: in every reachable state, get_history(video_id) and
\* get_history(video_id, session_id=None) return the same list, with and
\* without a limit, and an exchange just added without a session_id is the
\* last entry of both.
C4_DefaultSessionAlias ==
    /\ \A v \in VideoIds :
         /\ GetHistoryReturn(conversations, timestamps, now, [video_id |-> v])
              = GetHistoryReturn(conversations, timestamps, now,
                                 [video_id |-> v, session_id |-> None])
         /\ \A l \in Limits :
              GetHistoryReturn(conversations, timestamps, now, [video_id |-> v, limit |-> l])
                = GetHistoryReturn(conversations, timestamps, now,
                                   [video_id |-> v, session_id |-> None, limit |-> l])
    /\ (lastOp.op = "add_exchange" /\ SessionOmitted) =>
         \A args \in {[video_id |-> lastOp.args.video_id],
                      [video_id |-> lastOp.args.video_id, session_id |-> None]} :
            LET h == GetHistoryReturn(conversations, timestamps, now, args)
            IN  /\ Len(h) >= 1
                /\ h[Len(h)].question = lastOp.args.question
                /\ h[Len(h)].answer = lastOp.args.answer

\* An exchange has just been added without a session_id while the record of a
\* named session of the same video holds something else.
C4_Witness ==
    /\ lastOp.op = "add_exchange" /\ SessionOmitted
    /\ \E s \in SessionIds :
         LET other == _get_session_key(lastOp.args.video_id, s)
         IN  /\ other # lastOp.key
             /\ other \in DOMAIN conversations
             /\ conversations[other] # conversations[lastOp.key]

\* C5: a clear_history step leaves get_history on the same key returning [];
\* on an absent key it changes neither map and raises nothing; and clearing
\* again changes nothing more.
C5_ClearStep ==
    LET key == lastOp'.key
    IN  lastOp'.op = "clear_history" =>
          /\ GetHistoryReturn(conversations', timestamps', now', lastOp'.args) = << >>
          /\ \A l \in Limits :
               GetHistoryReturn(conversations', timestamps', now',
                                [video_id |-> lastOp'.args.video_id,
                                 session_id |-> ArgOr(lastOp'.args, "session_id", None),
                                 limit |-> l]) = << >>
          /\ key \notin DOMAIN conversations' /\ key \notin DOMAIN timestamps'
          /\ lastOp'.raised = None
          /\ (key \notin DOMAIN conversations /\ key \notin DOMAIN timestamps) =>
                conversations' = conversations /\ timestamps' = timestamps
          /\ \A k \in (DOMAIN conversations) \ {key} :
                k \in DOMAIN conversations' /\ conversations'[k] = conversations[k]
C5_ClearThenEmpty == [][C5_ClearStep]_vars

\* clear_history has just removed an existing record while another remains.
C5_Witness ==
    /\ lastOp.op = "clear_history"
    /\ lastOp.existed
    /\ conversations # << >>

\* =================================================== claims on the services

AttemptAnswered == fetch_log.outcome # None
LastRequest == fetch_log.request[1]
LastOutcome == fetch_log.outcome[1]
LastIs200WithBody ==
    /\ AttemptAnswered
    /\ LastOutcome.kind = "response"
    /\ LastOutcome.status = 200
    /\ LastOutcome.text # << >>
LastParsed == ParseByFormat(LastRequest.fmt, LastOutcome.text)

\* C6: when an attempt's response is HTTP 429 the operation has ended: the
\* result is a failure of kind RateLimited, no further attempt is issued, and a
\* 429 on the first attempt leaves the attempt count at 1.
C6_RateLimitAborts ==
    (AttemptAnswered /\ LastOutcome.kind = "response" /\ LastOutcome.status = 429)
    => /\ fetch_pc = "done"
       /\ ~fetch_result.success
       /\ ErrorKind(fetch_result.error) = "RateLimited"

\* C7 as stated: an attempt answered 200 with a non-empty body that parses to
\* non-empty text has ended the operation with success carrying that text.
C7_NonEmptyTextEnds ==
    (LastIs200WithBody /\ LastParsed # << >>)
    => /\ fetch_pc = "done"
       /\ fetch_result = Returned(TRUE, Some(LastParsed), None)

\* C7 as amended: an attempt answered 200 with a non-empty body that parses to
\* text with a non-whitespace character ends the operation: the result is
\* success carrying exactly that attempt's parsed text, and once the operation
\* has ended no attempt is issued. So 404 or an empty body for "en" followed by
\* <text>hi</text> for "en-US" ends with success after exactly 2 attempts.
C7_Step ==
    /\ (/\ fetch_log'.outcome # None
        /\ fetch_log'.outcome[1].kind = "response"
        /\ fetch_log'.outcome[1].status = 200
        /\ fetch_log'.outcome[1].text # << >>
        /\ Strip(ParseByFormat(fetch_log'.request[1].fmt, fetch_log'.outcome[1].text)) # << >>)
       => /\ fetch_pc' = "done"
          /\ fetch_result'.raised = None
          /\ fetch_result'.success
          /\ fetch_result'.payload
               = Some(ParseByFormat(fetch_log'.request[1].fmt, fetch_log'.outcome[1].text))
          /\ fetch_result'.error = None
    /\ fetch_pc = "done" => (fetch_log' = fetch_log /\ fetch_result' = fetch_result)
C7_FirstGoodAttemptWins == [][C7_Step]_vars

\* The second attempt, (srv3, en-US), was answered 200 <text>hi</text> after
\* the first got 404 or an empty body, and get_transcript returned "hi".
C7_Witness ==
    /\ fetch_pc = "done"
    /\ fetch_log.n = 2
    /\ fetch_log.prior_all_empty
    /\ LastRequest.lang = Some("en-US") /\ LastRequest.fmt = "srv3"
    /\ LastOutcome = Http(200, BodyText)
    /\ fetch_result = Returned(TRUE, Some(<<"h", "i">>), None)

\* C8: the attempts are one srv3 GET per language in order and then at most one
\* GET without a language: the k-th request of a fetch over n languages has
\* k <= n + 1, format srv3, and language k (none for k = n + 1).
C8_Srv3AtMostNPlusOne ==
    fetch_log.request # None =>
        /\ fetch_log.n <= Len(fetch_loc.languages) + 1
        /\ LastRequest.fmt = "srv3"
        /\ LastRequest.lang = IF fetch_log.n <= Len(fetch_loc.languages)
                              THEN Some(fetch_loc.languages[fetch_log.n])
                              ELSE None

\* C9: when get_transcript has ended after attempts that were all answered
\* with a status other than 200 or an empty body, every language and
\* auto-detect attempt was issued and the result is a failure of kind
\* NoCaptionsAvailable.
C9_NoCaptionsAvailable ==
    (/\ fetch_pc = "done"
     /\ AttemptAnswered
     /\ fetch_log.prior_all_empty
     /\ IsEmptyOutcome(LastOutcome))
    => /\ fetch_log.n = Len(formats) * Len(fetch_loc.languages) + Len(formats)
       /\ LastRequest.lang = None
       /\ fetch_result.raised = None
       /\ ~fetch_result.success
       /\ fetch_result.payload = None
       /\ ErrorKind(fetch_result.error) = "NoCaptionsAvailable"

\* All twenty attempts of a fetch over the default languages were answered
\* with a non-200 status or an empty body.
C9_Witness ==
    /\ fetch_pc = "done"
    /\ fetch_log.n = 20
    /\ fetch_log.prior_all_empty
    /\ IsEmptyOutcome(LastOutcome)
    /\ ~fetch_result.success

\* A result value: nothing raised; success carries a payload and no error,
\* failure carries no payload and a non-empty error message.
IsResultValue(r, empty) ==
    /\ r.raised = None
    /\ r.success => (r.payload # None /\ r.payload[1] # empty /\ r.error = None)
    /\ ~r.success => /\ r.payload = None
                     /\ r.error # None
                     /\ (r.error[1].prefix # "" \/ r.error[1].detail # "")

\* C10: get_transcript and ask_question never raise, whatever each outbound
\* call does; each returns success with a non-empty payload and no error, or
\* failure with no payload and a non-empty error.
C10_AlwaysResultValue ==
    /\ fetch_pc = "done" => IsResultValue(fetch_result, << >>)
    /\ ask_pc = "done" => IsResultValue(ask_result, "")

\* ask_question returned after a 200 response whose body was not JSON, asked
\* about a transcript that get_transcript had returned.
C10_Witness ==
    /\ fetch_pc = "done" /\ fetch_result.success
    /\ ask_pc = "done"
    /\ ask_request.transcript = fetch_result.payload[1]
    /\ ~ask_result.success
    /\ ask_result.error[1].prefix = "Unexpected error: "

\* ================================================ claims on the application

\* The request fields a blank value of which is refused.
HasBlankField(request) ==
    \/ IsBlankStr(request.video_id)
    \/ IsBlankStr(request.question)
    \/ ("transcript" \in DOMAIN request /\ IsBlankText(request.transcript))
Configured == settings # None /\ validate(settings[1])
SameKey(r, q) ==
    _get_session_key(handlers[r].request.video_id, handlers[r].request.session_id)
    = _get_session_key(handlers[q].request.video_id, handlers[q].request.session_id)

\* C11: every request to POST /api/qa/auto or POST /api/qa that has failed
\* holds a structured error response whose status is fixed by the failure:
\* 503 when the completion service is not configured, else 400 when video_id,
\* question or transcript is blank, else 404 when the caption fetch failed.
C11_FailureStatus ==
    \A r \in DOMAIN handlers :
        LET h == handlers[r]
        IN  h.pc = "done" =>
              /\ h.response # None
              /\ ~Configured => h.response[1].status = 503
              /\ (Configured /\ HasBlankField(h.request)) => h.response[1].status = 400
              /\ (h.fetched # None /\ ~h.fetched[1].success) => h.response[1].status = 404

\* C12: a finished POST /api/qa request with the service configured and a
\* non-blank transcript and question has called ask_question, and when that
\* call succeeded its response is the success response with the answer and
\* transcript_fetched = false, and it has appended its exchange.
C12_ManualAnswer ==
    \A r \in DOMAIN handlers :
        LET h == handlers[r]
        IN  (/\ h.pc = "done" /\ h.endpoint = "qa" /\ Configured
             /\ ~IsBlankText(h.request.transcript) /\ ~IsBlankStr(h.request.question))
            => /\ h.asked # None
               /\ h.asked[1].success =>
                    /\ h.response[1].status = 200
                    /\ h.response[1].body[1].answer = h.asked[1].payload[1]
                    /\ h.response[1].body[1].transcript_fetched = FALSE
                    /\ Len(h.appended) = 1

\* The requests that took a step, and whether a step added an exchange.
Stepped(r) ==
    /\ r \in DOMAIN handlers'
    /\ (r \notin DOMAIN handlers \/ handlers'[r] # handlers[r])
Appends(r) ==
    /\ Stepped(r)
    /\ Len(handlers'[r].appended) > (IF r \in DOMAIN handlers THEN Len(handlers[r].appended) ELSE 0)
\* The record of key as add_exchange finds it after its sweep.
SurvivingRecord(key) ==
    IF key \in DOMAIN conversations /\ ~IsExpired(timestamps[key], now)
    THEN conversations[key] ELSE << >>

\* C13: under any interleaving, a request to POST /api/qa/auto that has ended
\* has appended exactly one exchange if ask_question returned success to it
\* and none otherwise; the exchange is its own question with the returned
\* answer, appended to the record of its own session; a step that appends
\* nothing adds no exchange to any record.
C13_Step ==
    /\ \A r \in DOMAIN handlers' :
        LET h == handlers'[r]
            succeeded == h.asked # None /\ h.asked[1].success
        IN  h.endpoint = "auto" =>
              /\ h.pc \in {"done", "raised"} => Len(h.appended) = (IF succeeded THEN 1 ELSE 0)
              /\ h.pc \notin {"done", "raised"} => h.appended = << >>
              /\ Appends(r) =>
                   LET a == h.appended[1]
                   IN  /\ a.key = _get_session_key(h.request.video_id, h.request.session_id)
                       /\ a.exchange.question = h.request.question
                       /\ a.exchange.answer = h.asked[1].payload[1]
                       /\ a.key \in DOMAIN conversations'
                       /\ conversations'[a.key][Len(conversations'[a.key])] = a.exchange
    /\ (\A r \in DOMAIN handlers' : ~Appends(r)) =>
         \A k \in DOMAIN conversations' :
            k \in DOMAIN conversations /\ conversations'[k] = conversations[k]
C13_AppendsIffAnswered == [][C13_Step]_vars

\* Two requests on one session were in flight together: one has appended its
\* exchange and answered, the other got a failure from ask_question and
\* appended nothing.
C13_Witness ==
    \E r, q \in DOMAIN handlers :
        /\ r # q /\ handlers[r].endpoint = "auto" /\ handlers[q].endpoint = "auto"
        /\ SameKey(r, q)
        /\ handlers[r].pc = "done" /\ Len(handlers[r].appended) = 1
        /\ handlers[r].response[1].status = 200
        /\ handlers[q].pc = "done" /\ handlers[q].asked # None
        /\ ~handlers[q].asked[1].success /\ handlers[q].appended = << >>

\* C14: under any interleaving of handlers, every store call takes effect as
\* one step. Between steps each exchange list has its last_touched and holds
\* 1..max_history exchanges; a step that called get_history or add_exchange
\* leaves no expired record; what a handler read is the whole current record;
\* and an appended exchange extends the record as it is at that step, so the
\* exchange of a request that answered in between is not lost.
C14_Step ==
    /\ DOMAIN conversations' = DOMAIN timestamps'
    /\ \A k \in DOMAIN conversations' :
          Len(conversations'[k]) >= 1 /\ Len(conversations'[k]) <= max_history
    /\ \A r \in DOMAIN handlers' :
        LET h == handlers'[r]
            key == _get_session_key(h.request.video_id, h.request.session_id)
        IN  (Stepped(r) /\ h.calls # << >>) =>
              /\ ExpiredKeys(timestamps', now') = {}
              /\ h.pc = "ask" =>
                   h.formatted_history
                     = (IF key \in DOMAIN conversations'
                        THEN Some(format_history_for_prompt(conversations'[key])) ELSE None)
              /\ Appends(r) =>
                   /\ conversations'[key]
                        = LastN(Append(SurvivingRecord(key), h.appended[1].exchange), max_history)
                   /\ timestamps'[key] = now
                   /\ h.response[1].body[1].conversation_length = Len(conversations'[key])
C14_StoreCallsAtomic == [][C14_Step]_vars

\* A request read an empty record and is suspended in ask_question while
\* another request on the same session has appended its exchange.
C14_Witness ==
    \E r, q \in DOMAIN handlers :
        /\ r # q /\ handlers[r].endpoint = "auto" /\ handlers[q].endpoint = "auto"
        /\ SameKey(r, q)
        /\ handlers[q].pc = "ask" /\ handlers[q].formatted_history = None
        /\ handlers[r].pc = "done" /\ Len(handlers[r].appended) = 1
        /\ handlers[r].appended[1].key \in DOMAIN conversations

\* C15: a request cancelled while suspended in get_transcript or ask_question
\* ends by raising, makes no store call and appends nothing; the step that
\* cancels it leaves both maps as they were, and every exchange list still
\* has its last_touched.
C15_Step ==
    /\ \A r \in DOMAIN handlers' :
        LET h == handlers'[r]
        IN  h.cancelled =>
              /\ h.pc = "raised" /\ h.response = None
              /\ h.calls = << >> /\ h.appended = << >>
              /\ Stepped(r) => (conversations' = conversations /\ timestamps' = timestamps)
    /\ DOMAIN conversations' = DOMAIN timestamps'
C15_CancelWritesNothing == [][C15_Step]_vars

\* A request was cancelled while suspended in ask_question, after it had read
\* a record that another request had written.
C15_Witness ==
    \E r \in DOMAIN handlers :
        /\ handlers[r].cancelled /\ handlers[r].pc = "raised"
        /\ handlers[r].fetched # None /\ handlers[r].fetched[1].success
        /\ _get_session_key(handlers[r].request.video_id, handlers[r].request.session_id)
             \in DOMAIN conversations

\* ============================================ further claims on the store

\* C16: add_exchange sets its key's last_touched to the current time;
\* get_history, with or without limit, changes no record's last_touched (it
\* only removes the expired ones); so a record that is read but not written
\* is gone, and reads as empty, once ttl_hours have passed since its last
\* write.
C16_Step ==
    /\ (lastOp'.op = "add_exchange" /\ lastOp'.raised = None) =>
         (lastOp'.key \in DOMAIN timestamps' /\ timestamps'[lastOp'.key] = now')
    /\ (lastOp'.op = "get_history" /\ lastOp'.raised = None) =>
         /\ \A k \in DOMAIN timestamps' : k \in DOMAIN timestamps /\ timestamps'[k] = timestamps[k]
         /\ \A k \in DOMAIN timestamps : k \in DOMAIN timestamps' \/ now - timestamps[k] > ttl_hours
         /\ (lastOp'.key \in DOMAIN timestamps /\ now - timestamps[lastOp'.key] > ttl_hours) =>
              (lastOp'.key \notin DOMAIN conversations' /\ result' = << >>)
C16_TouchedOnWriteOnly == [][C16_Step]_vars

\* get_history with a limit has read a record written an hour or more before,
\* and its last_touched is still the time of that write.
C16_Witness ==
    /\ lastOp.op = "get_history"
    /\ "limit" \in DOMAIN lastOp.args
    /\ lastOp.key \in DOMAIN timestamps
    /\ timestamps[lastOp.key] < now
    /\ result # << >>

\* The m most recent entries of a list, oldest first.
MostRecent(list, m) == SubSeq(list, Len(list) - m + 1, Len(list))

\* C17: get_history on a key holding n exchanges returns the min(limit, n)
\* most recent ones, oldest first, for every limit >= 0 given, and all n when
\* no limit is given; for an absent key it returns the empty sequence.
C17_LimitedHistory ==
    (lastOp.op = "get_history" /\ lastOp.raised = None) =>
        LET record == ListAt(conversations, lastOp.key)
            limit == ArgOr(lastOp.args, "limit", None)
        IN  result = IF limit = None THEN record
                     ELSE MostRecent(record, Min(limit[1], Len(record)))

\* C21: format_history_for_prompt gives "" for the empty history and, for a
\* history of n exchanges, the header line followed by n blocks in input order,
\* the i-th holding "Q{i}: <question_i>" and then "A{i}: <answer_i>". Checked
\* on every list get_history returns, the lists the handlers pass to it; the
\* value is a function of the argument alone.
C21_FormattedHistory ==
    (lastOp.op = "get_history" /\ lastOp.raised = None) =>
        LET n == Len(result)
            upTo[i \in 0..n] ==
                IF i = 0 THEN "\n\nPrevious conversation:\n"
                ELSE upTo[i - 1] \o "\nQ" \o ToString(i) \o ": " \o result[i].question \o "\n"
                                \o "A" \o ToString(i) \o ": " \o result[i].answer \o "\n"
        IN  /\ format_history_for_prompt(<< >>) = ""
            /\ format_history_for_prompt(result) = (IF n = 0 THEN "" ELSE upTo[n])

\* get_history has returned q2/a2 followed by q1/a1, which format as blocks 1
\* and 2 in that order.
C21_Witness ==
    /\ lastOp.op = "get_history" /\ lastOp.raised = None
    /\ Len(result) = 2
    /\ result[1].question = "q2" /\ result[2].question = "q1"
    /\ format_history_for_prompt(result)
         = "\n\nPrevious conversation:\n\nQ1: q2\nA1: a2\n\nQ2: q1\nA2: a1\n"

\* C28: in every reachable state the keys with an exchange list are the keys
\* with a last_touched, every stored list is non-empty, and a stored record
\* has received at least one add_exchange since its key was last cleared or
\* swept, the latest of which is its last exchange.
C28_RecordsWellFormed ==
    /\ DOMAIN conversations = DOMAIN timestamps
    /\ \A key \in DOMAIN conversations :
          /\ conversations[key] # << >>
          /\ key \in DOMAIN inserted
          /\ Len(inserted[key]) >= 1
          /\ conversations[key][Len(conversations[key])] = inserted[key][Len(inserted[key])]
    /\ \A key \in DOMAIN inserted : key \in DOMAIN conversations

\* get_history has swept an expired record while another record remains.
C28_Witness ==
    /\ lastOp.op = "get_history"
    /\ lastOp.expired # {}
    /\ conversations # << >>
    /\ \A key \in lastOp.expired : key \notin DOMAIN timestamps

\* C29: a get_history step removes the expired records and changes nothing
\* else: no key is added, every record that was not expired keeps its
\* exchanges, their order and its last_touched, and the same call made again
\* at once returns the same list.
C29_Step ==
    (lastOp'.op = "get_history" /\ lastOp'.raised = None) =>
        LET expired == {k \in DOMAIN timestamps : now - timestamps[k] > ttl_hours}
        IN  /\ DOMAIN conversations' = (DOMAIN conversations) \ expired
            /\ DOMAIN timestamps' = (DOMAIN timestamps) \ expired
            /\ \A k \in DOMAIN conversations' :
                  conversations'[k] = conversations[k] /\ timestamps'[k] = timestamps[k]
            /\ lastOp'.key \notin DOMAIN conversations => lastOp'.key \notin DOMAIN conversations'
            /\ GetHistoryReturn(conversations', timestamps', now', lastOp'.args) = result'
C29_ReadOnlyButSweep == [][C29_Step]_vars

\* get_history has returned [] for a key that has no record, while the record
\* of another key is stored.
C29_Witness ==
    /\ lastOp.op = "get_history"
    /\ lastOp.key \notin DOMAIN conversations
    /\ lastOp.expired = {}
    /\ result = << >>
    /\ conversations # << >>

\* C27: an add_exchange or clear_history on one (video_id, session_id) pair
\* leaves what get_history returns for every other pair as it was. Two pairs
\* are the same when the video_ids are equal and the session_ids are equal or
\* both absent (None or ""); "default" is a session_id like any other.
C27_Step ==
    LET absent(sid) == sid = None \/ sid = Some("")
        same(p, q) ==
            /\ p.video_id = q.video_id
            /\ \/ p.session_id = q.session_id
               \/ (absent(p.session_id) /\ absent(q.session_id))
        acted == [video_id |-> lastOp'.args.video_id,
                  session_id |-> ArgOr(lastOp'.args, "session_id", DefaultSessionId)]
    IN  lastOp'.op \in {"add_exchange", "clear_history"} =>
          \A v \in VideoIds, sid \in SessionIds :
             LET other == [video_id |-> v, session_id |-> sid]
             IN  ~same(acted, other) =>
                   GetHistoryReturn(conversations', timestamps', now', other)
                     = GetHistoryReturn(conversations, timestamps, now, other)
C27_SessionsIsolated == [][C27_Step]_vars

\* ======================================= further claims on the application

\* C24: in a request to POST /api/qa/auto the steps come in the order fetch,
\* get_history, ask_question, add_exchange, response. A store call is made and
\* the completion call is started only after get_transcript returned success;
\* the history passed to ask_question is the session's record as read in the
\* step that starts the call, when the request has added nothing yet; the
\* exchange is added in the step in which ask_question returns, and only a
\* request that added its exchange answers with success.
C24_Step ==
    \A r \in DOMAIN handlers' :
        LET h == handlers'[r]
            key == _get_session_key(h.request.video_id, h.request.session_id)
            fetch_ok == h.fetched # None /\ h.fetched[1].success
        IN  h.endpoint = "auto" =>
              /\ (h.pc = "ask" \/ h.asked # None \/ h.calls # << >>) => fetch_ok
              /\ h.appended # << >> => (h.asked # None /\ h.asked[1].success)
              /\ (Stepped(r) /\ h.pc = "ask") =>
                    /\ handlers[r].pc = "fetch"
                    /\ h.asked = None /\ h.appended = << >>
                    /\ h.formatted_history
                         = (IF ListAt(conversations', key) # << >>
                            THEN Some(format_history_for_prompt(conversations'[key])) ELSE None)
              /\ Appends(r) =>
                    /\ handlers[r].pc = "ask" /\ handlers[r].asked = None
                    /\ h.pc = "done"
              /\ (h.pc = "done" /\ h.response[1].status = 200) => Len(h.appended) = 1
C24_StepsInOrder == [][C24_Step]_vars

\* A request has answered with success after reading a record that held the
\* exchange of another request: its own exchange is the second of the record.
C24_Witness ==
    \E r \in DOMAIN handlers :
        /\ handlers[r].endpoint = "auto" /\ handlers[r].pc = "done"
        /\ handlers[r].fetched # None /\ handlers[r].fetched[1].success
        /\ handlers[r].asked # None /\ handlers[r].asked[1].success
        /\ handlers[r].response[1].status = 200
        /\ handlers[r].response[1].body[1].conversation_length = 2

\* C25: under any interleaving, the step in which a request answers with
\* success leaves its session's record holding conversation_length exchanges,
\* one more than the record held (the expired record counting as empty) up to
\* max_history, so between 1 and max_history, and the last of them is the
\* request's own question with the returned answer.
C25_Step ==
    \A r \in DOMAIN handlers' :
        LET h == handlers'[r]
            key == _get_session_key(h.request.video_id, h.request.session_id)
            length == h.response[1].body[1].conversation_length
            before == Len(SurvivingRecord(key))
        IN  (Stepped(r) /\ h.pc = "done" /\ h.response[1].status = 200) =>
              /\ key \in DOMAIN conversations'
              /\ length = Len(conversations'[key])
              /\ length = (IF before < max_history THEN before + 1 ELSE max_history)
              /\ 1 <= length /\ length <= max_history
              /\ conversations'[key][length]
                   = [question |-> h.request.question, answer |-> h.asked[1].payload[1],
                      timestamp |-> now]
C25_ConversationLength == [][C25_Step]_vars

\* Two requests on one session have both answered with conversation_length =
\* max_history: the second found the record full and its exchange replaced
\* the oldest one.
C25_Witness ==
    \E r, q \in DOMAIN handlers :
        /\ r # q /\ handlers[r].endpoint = "auto" /\ handlers[q].endpoint = "auto"
        /\ SameKey(r, q)
        /\ \A x \in {r, q} :
              /\ handlers[x].pc = "done" /\ handlers[x].response[1].status = 200
              /\ handlers[x].response[1].body[1].conversation_length = max_history

\* C30: every step of a request to POST /api/qa/auto for which get_transcript
\* has not returned success (the body refused, the service not configured,
\* video_id or question blank, the request suspended in the fetch, the fetch
\* failed or cancelled) leaves conversations and timestamps as they were and
\* makes no store call, whatever its clear_history; a request that has called
\* clear_history holds a successful transcript fetch.
C30_Step ==
    \A r \in DOMAIN handlers' :
        LET h == handlers'[r]
            fetch_ok == h.fetched # None /\ h.fetched[1].success
        IN  h.endpoint = "auto" =>
              /\ (Stepped(r) /\ ~fetch_ok) =>
                    /\ conversations' = conversations
                    /\ timestamps' = timestamps
                    /\ h.calls = << >>
              /\ (\E i \in DOMAIN h.calls : h.calls[i] = "clear_history") => fetch_ok
C30_FailureLeavesStore == [][C30_Step]_vars

\* A request carrying clear_history = true has been answered 404 for its
\* failed caption fetch while the record of its session is stored.
C30_Witness ==
    \E r \in DOMAIN handlers :
        LET h == handlers[r]
        IN  /\ h.endpoint = "auto" /\ h.pc = "done"
            /\ h.request.clear_history = TRUE
            /\ h.fetched # None /\ ~h.fetched[1].success
            /\ h.response[1].status = 404
            /\ ListAt(conversations, _get_session_key(h.request.video_id, h.request.session_id))
                 # << >>

\* C31 as stated: a request to POST /api/qa/auto with clear_history = true
\* that answers with success was passed an empty history, reports
\* conversation_length = 1 and leaves its session's record holding its own
\* exchange alone, whatever the other requests on the session did.
C31_StepAsStated ==
    \A r \in DOMAIN handlers' :
        LET h == handlers'[r]
            key == _get_session_key(h.request.video_id, h.request.session_id)
        IN  (h.endpoint = "auto" /\ h.request.clear_history = TRUE /\ Stepped(r)) =>
              /\ h.pc = "ask" => h.formatted_history = None
              /\ (h.pc = "done" /\ h.response[1].status = 200) =>
                    /\ h.response[1].body[1].conversation_length = 1
                    /\ conversations'[key]
                         = <<[question |-> h.request.question,
                              answer |-> h.asked[1].payload[1], timestamp |-> now]>>
C31_FreshAfterClear == [][C31_StepAsStated]_vars

\* C31: for a request to POST /api/qa/auto with clear_history = true, under
\* any interleaving: the step that starts the completion call removes the
\* session's record and passes no history; the step in which the request
\* answers with success appends its exchange to what the other requests have
\* stored for the session since (the expired record counting as empty) and
\* reports that length, up to max_history; conversation_length is 1, and the
\* record holds this exchange alone, exactly when the session has no live
\* record at the moment the completion call returns.
C31_Step ==
    \A r \in DOMAIN handlers' :
        LET h == handlers'[r]
            key == _get_session_key(h.request.video_id, h.request.session_id)
            since == SurvivingRecord(key)
            own == [question |-> h.request.question,
                    answer |-> h.asked[1].payload[1], timestamp |-> now]
        IN  (h.endpoint = "auto" /\ h.request.clear_history = TRUE /\ Stepped(r)) =>
              /\ h.pc = "ask" =>
                    /\ h.formatted_history = None
                    /\ key \notin DOMAIN conversations'
                    /\ key \notin DOMAIN timestamps'
                    /\ h.calls = <<"clear_history", "get_history">>
              /\ (h.pc = "done" /\ h.response[1].status = 200) =>
                    /\ handlers[r].pc = "ask"
                    /\ conversations'[key] = TrimHistory(Append(since, own))
                    /\ h.response[1].body[1].conversation_length = Len(conversations'[key])
                    /\ (h.response[1].body[1].conversation_length = 1
                         <=> (since = << >> \/ max_history = 1))
                    /\ since = << >> => conversations'[key] = <<own>>
C31_ClearThenAppend == [][C31_Step]_vars

\* A request carrying clear_history = true has answered with success and
\* conversation_length = 2: another request stored its exchange for the same
\* session while this one was suspended in the completion call.
C31_Witness ==
    \E r \in DOMAIN handlers :
        LET h == handlers[r]
        IN  /\ h.endpoint = "auto" /\ h.pc = "done"
            /\ h.request.clear_history = TRUE
            /\ h.response[1].status = 200
            /\ h.response[1].body[1].conversation_length = 2
            /\ Len(h.appended) = 1

\* ============================================ further claims on the fetcher

\* An attempt's outcome that is a soft failure: an exception of the request
\* (timeout, transport error), a status other than 200 and 429, an empty body,
\* or a body that parses to the empty text.
SoftFailure(fmt, o) ==
    IF o.kind = "raise" THEN IsInstance(o.exc[1], "Exception")
    ELSE \/ o.status \notin {200, 429}
         \/ (o.status = 200 /\ (o.text = << >> \/ ParseByFormat(fmt, o.text) = << >>))

\* C22: when an attempt that is not the last of the sequence (every format for
\* every language, then every format without a language) ends in a soft
\* failure, get_transcript goes on to issue the next attempt; and an attempt
\* after the first that is answered 200 with text holding a non-whitespace
\* character ends the fetch with success carrying that text.
C22_Step ==
    (fetch_pc = "wait" /\ fetch_log'.outcome # None) =>
        LET o == fetch_log'.outcome[1]
            fmt == fetch_log'.request[1].fmt
            last == fetch_loc.phase = "auto" /\ fetch_loc.fmt_i = Len(formats)
        IN  /\ (SoftFailure(fmt, o) /\ ~last) =>
                  (fetch_pc' = "send" /\ fetch_result' = NoResult)
            /\ (/\ fetch_log'.n >= 2 /\ o.kind = "response" /\ o.status = 200
                 /\ o.text # << >> /\ Strip(ParseByFormat(fmt, o.text)) # << >>)
                => fetch_result' = Returned(TRUE, Some(ParseByFormat(fmt, o.text)), None)
C22_SoftFailuresContinue == [][C22_Step]_vars

\* C23: within one fetch a caption request is issued only when none is
\* outstanding and the one before it has been answered; and, the outbound calls
\* returning, a fetch that has started ends with a result and a request to
\* POST /api/qa/auto that is waiting for its transcript or its answer ends with
\* a response.
C23_Step ==
    fetch_log'.n # fetch_log.n =>
        /\ fetch_pc \in {"idle", "send"} /\ fetch_pc' \in {"wait", "send", "done"}
        /\ fetch_log'.n > 0 =>
              /\ fetch_log'.n = fetch_log.n + 1
              /\ fetch_log.n > 0 => fetch_log.outcome # None
C23_SequentialAndTerminating ==
    /\ [][C23_Step]_vars
    /\ (fetch_pc \in {"send", "wait"}) ~> (fetch_pc = "done" /\ fetch_result # NoResult)
    /\ (\E r \in DOMAIN handlers : handlers[r].pc \in {"fetch", "ask"})
          ~> (\E r \in DOMAIN handlers : handlers[r].pc = "done" /\ handlers[r].response # None)

\* The request has its answer after a fetch of several attempts.
C23_Witness ==
    /\ fetch_pc = "done" /\ fetch_log.n > 2
    /\ ask_pc = "done"
    /\ \E r \in DOMAIN handlers :
          /\ handlers[r].pc = "done"
          /\ handlers[r].response[1].status = 200

\* ================================================== claims on the parsers

Parsed == parse_fmt # None
ParsedAsXml == Parsed /\ parse_fmt[1] \in {"srv1", "srv2", "srv3"}
\* A "<" with a ">" after it, and a character reference of the table.
HasTag(text) ==
    \E i \in 1..Len(text) : text[i] = "<" /\ \E j \in (i + 1)..Len(text) : text[j] = ">"
HasEntity(text) == \E n \in 1..Len(Entities) : Find(text, 1, Entities[n][1]) # 0

\* C18: for srv1/srv2/srv3 the return value is that of the first layer that
\* finds an element: the <text> bodies alone when the input has a <text>
\* element, else the <p> bodies when it has a <p> element, else the
\* whitespace-separated tokens left after tag stripping; each body decoded and
\* trimmed, empty ones dropped, joined by single spaces in document order.
C18_LayeredFallback ==
    ParsedAsXml =>
        LET texts == FindAllElements(RawText, 1, TextOpen, TextClose)
            ps == FindAllElements(RawText, 1, POpen, PClose)
        IN  parse_output[1] =
              IF texts # << >> THEN Join(<<" ">>, CleanFragments(texts))
              ELSE IF ps # << >> THEN Join(<<" ">>, CleanFragments(ps))
              ELSE Join(<<" ">>, SplitWs(Unescape(StripTags(RawText)), << >>))

\* C19: for every format and raw text the return value holds no markup tag
\* and no raw HTML entity escape.
C19_NoMarkupNoEntities ==
    Parsed => (~HasTag(parse_output[1]) /\ ~HasEntity(parse_output[1]))

\* The lines of a vtt text that remain, trimmed and in order, after dropping
\* the blank lines, the header lines, the lines holding "-->", the purely
\* numeric lines and the lines beginning with NOTE or STYLE, joined by single
\* spaces. The header lines are the lines beginning with WEBVTT among those
\* numbered in headerAt.
VttRemaining(text, headerAt) ==
    LET lines == SplitOn(text, "\n", << >>)
        dropped(i) ==
            LET line == Strip(lines[i])
            IN  \/ line = << >>
                \/ (i \in headerAt /\ StartsAt(line, 1, <<"W", "E", "B", "V", "T", "T">>))
                \/ Find(line, 1, <<"-", "-", ">">>) # 0
                \/ IsDigit(line)
                \/ StartsAt(line, 1, <<"N", "O", "T", "E">>)
                \/ StartsAt(line, 1, <<"S", "T", "Y", "L", "E">>)
        kept[i \in 0..Len(lines)] ==
            IF i = 0 THEN << >>
            ELSE IF dropped(i) THEN kept[i - 1]
            ELSE Append(kept[i - 1], Strip(lines[i]))
    IN  Join(<<" ">>, kept[Len(lines)])

\* C26 as stated: for vtt the return value is the remaining lines, the header
\* line being the first non-blank line of the text when it begins with WEBVTT;
\* no other line is dropped.
C26_VttExactLines ==
    (Parsed /\ parse_fmt[1] = "vtt") =>
        LET lines == SplitOn(RawText, "\n", << >>)
            first == {i \in 1..Len(lines) :
                        /\ Strip(lines[i]) # << >>
                        /\ \A j \in 1..(i - 1) : Strip(lines[j]) = << >>}
        IN  parse_output[1] = VttRemaining(RawText, first)

\* C26 as amended: for vtt the return value is the remaining lines, where
\* every line beginning with WEBVTT, wherever it stands, is dropped as a
\* header line; no other line is dropped.
C26_VttKeptLines ==
    (Parsed /\ parse_fmt[1] = "vtt") =>
        parse_output[1] = VttRemaining(RawText, 1..Len(SplitOn(RawText, "\n", << >>)))

\* The text "d", line break, "WEBVTT" has been parsed as vtt: the second line
\* was dropped.
C26_Witness ==
    /\ parse_input = <<<<"d">>, <<"\n">>, <<"W", "E", "B", "V", "T", "T">>>>
    /\ parse_fmt = Some("vtt")
    /\ parse_output = Some(<<"d">>)

\* C20: for every format and every input the parser returns a string (a
\* sequence of characters, never a fault), and for the empty input the empty
\* string.
C20_TotalAndEmptyOnEmpty ==
    Parsed =>
        /\ parse_output # None
        /\ \A i \in 1..Len(parse_output[1]) : Len(parse_output[1][i]) = 1
        /\ RawText = << >> => parse_output[1] = << >>

\* The empty input has been parsed as ttml.
C20_Witness ==
    /\ parse_input = << >>
    /\ parse_fmt = Some("ttml")
    /\ parse_output = Some(<< >>)

====
